---- MODULE Spec2Model ----
(***************************************************************************)
(* IMDb film scraper: the link discoverer, the field extractors, the       *)
(* detail fetcher, the orchestrators of test_claude.py, ver3.py,           *)
(* ver4_Selenium_Based.py and ver5.py, process_movies of                   *)
(* review_scraper.py, and the review classifiers: main, process_review     *)
(* and process_country_data of review_classifier.py, and process_review    *)
(* of review_classifier2.py with its two category registries.              *)
(*                                                                         *)
(* Text is modelled as a sequence of tokens.  A URL is a sequence such as  *)
(* <<"/title/", "tt", "1/", "?", "ref_=li_tt">>; the text of an element is *)
(* a sequence of one-character strings.                                    *)
(***************************************************************************)
EXTENDS Integers, Sequences, FiniteSets, TLC

VARIABLES
    ld_variant,      \* link discoverer under test: "tc", "v4", "v3", "v5", or "idle"
    ld_doc,          \* the parsed listing document: a set of anchors
    ld_rejects,      \* whether the CSS engine rejects ver3's first selector
    ld_out           \* the discoverer's return: [status, links, used], or NotRun

VARIABLES
    fx_field,        \* field extractor under test: "year", "rating", or "idle"
    fx_doc,          \* the parsed detail document, as seen by the field's selectors
    fx_out           \* the extractor's return, or NotExtracted

VARIABLES
    tc_pc,               \* position of scrape_country_films (test_claude.py)
    tc_page,             \* the loop variable `page`
    tc_soup,             \* the listing document of the current page
    tc_movie_links,      \* movie_links of the current page
    tc_new_movie_links,  \* new_movie_links of the current page
    tc_processed_urls,   \* processed_urls
    tc_futures,          \* future_to_url: link -> state and result of its task
    tc_all_movies,       \* all_movies
    tc_csv,              \* the table written by df.to_csv, or NotWritten
    tc_trace,            \* history: per listing page fetched, its outcome and links
    tc_calls             \* history: one entry per finished get_movie_details call

VARIABLES
    v5_pc,             \* position of scrape_movies (ver5.py)
    v5_movie_links,    \* movie_links returned by get_movie_links
    v5_futures,        \* futures: link -> state of its task
    v5_movie_details,  \* self.movie_details
    v5_csv,            \* the table written by save_to_csv, or NotWritten
    v5_calls           \* history: one entry per finished get_movie_details call

VARIABLES
    dt_pc,           \* position of one get_movie_details call (test_claude.py, ver4)
    dt_url,          \* its movie_url argument
    dt_fetches,      \* history: the requests.get calls issued, with their outcomes
    dt_soup,         \* the parsed response, or NoDetail
    dt_out           \* what the call gave back, or NotReturned

VARIABLES
    v3_pc,           \* position of scrape_country_films (ver3.py)
    v3_page,         \* the loop variable `page`
    v3_rejects,      \* whether the CSS engine rejects the first selector of ver3
    v3_soup,         \* the listing document of the current page
    v3_movie_links,  \* movie_links of the current page
    v3_futures,      \* future_to_url: link -> state and result of its task
    v3_all_movies,   \* all_movies
    v3_csv           \* the table written by df.to_csv, or NotWritten

VARIABLES
    v4_pc,           \* position of scrape_country_films (ver4_Selenium_Based.py)
    v4_clicks,       \* the 'Load More' clicks done by get_imdb_search_results
    v4_soup,         \* the listing document parsed from driver.page_source
    v4_movie_links,  \* movie_links
    v4_futures,      \* future_to_url: link -> state and result of its task
    v4_all_movies,   \* all_movies
    v4_csv,          \* the table written by df.to_csv, or NotWritten
    v4_calls         \* history: one entry per finished get_movie_details call

VARIABLES
    rv_pc,                  \* position of process_movies (review_scraper.py)
    rv_df_movies,           \* the rows read from the input file: [title, url]
    rv_futures,             \* future_to_movie: row index -> state and result of its task
    rv_all_reviews,         \* all_reviews
    rv_total_reviews_dict,  \* total_reviews_dict: title -> count
    rv_movies_file,         \* the film rows written to output_movies_file, or NotWritten
    rv_reviews_file         \* the rows written to output_reviews_file, or NotWritten

VARIABLES
    v5_trace,        \* history: the browser operations of ver5's get_movie_links
    run_country      \* the country argument of scrape_country_films, or NoCountry

VARIABLES
    dc_variant,      \* whose extract_movie_links is followed step by step: "tc" or "v4"
    dc_pc,           \* position inside and between the calls
    dc_doc,          \* the soup argument of the current call
    dc_i,            \* position of `selector` in link_selectors
    dc_todo,         \* elements of movie_title_links the inner loop has not visited yet
    dc_movie_links,  \* the local set movie_links
    dc_returned      \* history: [doc, links] of the calls that have returned

VARIABLES
    cl_pc,           \* position of main / process_country_data (review_classifier.py)
    cl_present,      \* the required files that exist
    cl_country,      \* which call of process_country_data main is in: 1 or 2
    cl_films,        \* films_df['title']
    cl_reviews,      \* reviews_df: rows [movie_title, review_title, review_content]
    cl_i,            \* position of movie_title in films_df['title']
    cl_todo,         \* rows of the film's review group that iterrows has not yielded yet
    cl_attempt,      \* attempts tenacity has made for the current review
    cl_calls,        \* client.generate calls issued for the current review
    cl_results,      \* results
    cl_returned,     \* the DataFrames returned by process_country_data so far
    cl_written,      \* the DataFrames written by to_excel
    cl_log           \* history: one entry per process_review call that has ended

VARIABLES
    r2_pc,           \* position of a process_review call (review_classifier2.py)
    r2_title,        \* its title argument
    r2_content,      \* its content argument
    r2_attempt,      \* attempts tenacity has made
    r2_calls,        \* client.generate calls issued for this review
    r2_strength,     \* STRENGTH_CATEGORIES: title -> description
    r2_weakness,     \* WEAKNESS_CATEGORIES: title -> description
    r2_out           \* what the last call gave back, or NotReturned

ldVars == <<ld_variant, ld_doc, ld_rejects, ld_out>>
fxVars == <<fx_field, fx_doc, fx_out>>
tcVars == <<tc_pc, tc_page, tc_soup, tc_movie_links, tc_new_movie_links,
            tc_processed_urls, tc_futures, tc_all_movies, tc_csv, tc_trace, tc_calls>>

v5Vars == <<v5_pc, v5_movie_links, v5_futures, v5_movie_details, v5_csv, v5_calls>>

dtVars == <<dt_pc, dt_url, dt_fetches, dt_soup, dt_out>>

v3Vars == <<v3_pc, v3_page, v3_rejects, v3_soup, v3_movie_links, v3_futures,
            v3_all_movies, v3_csv>>

v4Vars == <<v4_pc, v4_clicks, v4_soup, v4_movie_links, v4_futures, v4_all_movies,
            v4_csv, v4_calls>>

rvVars == <<rv_pc, rv_df_movies, rv_futures, rv_all_reviews, rv_total_reviews_dict,
            rv_movies_file, rv_reviews_file>>

paceVars == <<v5_trace>>

cfgVars == <<run_country>>

dcVars == <<dc_variant, dc_pc, dc_doc, dc_i, dc_todo, dc_movie_links, dc_returned>>

clVars == <<cl_pc, cl_present, cl_country, cl_films, cl_reviews, cl_i, cl_todo,
            cl_attempt, cl_calls, cl_results, cl_returned, cl_written, cl_log>>

r2Vars == <<r2_pc, r2_title, r2_content, r2_attempt, r2_calls, r2_strength,
            r2_weakness, r2_out>>

\* the variables of the scrapers
scrapeVars == <<ldVars, fxVars, tcVars, v5Vars, dtVars, v3Vars, v4Vars, rvVars,
                paceVars, cfgVars>>

\* the variables added for pacing, the run parameters, the link discoverer
\* followed step by step, and the review classifiers
moreVars == <<paceVars, cfgVars, dcVars, clVars, r2Vars>>

\* the variables of the programs that appear after ver5.py below
restVars == <<dtVars, v3Vars, v4Vars, rvVars, moreVars>>

vars == <<ldVars, fxVars, tcVars, v5Vars, restVars>>

\* --------------------------------------------------------------- bounds
\* Anchors in one listing document.
MaxAnchors == 2

\* The max_pages argument of scrape_country_films.
MaxPages == 3

\* The max_workers argument of IMDbScraper.
MaxWorkers == 2

\* The max_clicks argument of ver4's scrape_country_films.
MaxClicks == 2

\* Rows of the film table read by process_movies.
MaxMovies == 2

\* --------------------------------------------------------------- text
Min(S) == CHOOSE x \in S : \A y \in S : x <= y

\* str.split('?')[0]: the part before the first '?'.
SplitQuery(s) ==
    LET qs == {i \in 1..Len(s) : s[i] = "?"}
    IN  IF qs = {} THEN s ELSE SubSeq(s, 1, Min(qs) - 1)

\* str.startswith('/title/')
StartsWithTitle(s) == Len(s) >= 1 /\ s[1] = "/title/"

\* the attribute test [href^="/title/tt"]
StartsWithTitleTT(s) == Len(s) >= 2 /\ s[1] = "/title/" /\ s[2] = "tt"

ImdbHost == <<"https://www.imdb.com">>

\* f"https://www.imdb.com{href}"
FullUrl(href) == ImdbHost \o href

\* An anchor without an href attribute.
NoHref == <<"<no href>">>

\* link.get('href', '')
GetHref(a) == IF a.href = NoHref THEN <<>> ELSE a.href

\* --------------------------------------------------------------- listing documents
Hrefs ==
    { <<"/title/", "tt", "1/">>,
      <<"/title/", "tt", "1/", "?", "ref_=li_tt">>,
      <<"/title/", "tt", "1/", "?", "ref_=li_i">>,
      <<"/title/", "tt", "2/">>,
      <<"/name/", "nm", "1/">>,
      NoHref }

\* Where an anchor sits in the listing markup: under
\* div.lister-item-content h3.lister-item-header inside a div.lister-item
\* ("item_content_h3") or outside one ("content_h3"), under another
\* h3.lister-item-header ("h3"), as a.sc-afe43def-2 under div.sc-afe43def-1
\* ("sc"), elsewhere under a div.lister-item ("item"), as
\* a.lister-item-header-link ("hdrlink"), or none of these ("plain").
Placements == {"item_content_h3", "content_h3", "h3", "sc", "item", "hdrlink", "plain"}

Anchors == [href : Hrefs, place : Placements]

\* the subsets of S with at most n elements
RECURSIVE SubsetsUpTo(_, _)
SubsetsUpTo(S, n) ==
    IF n = 0 THEN {{}}
    ELSE LET P == SubsetsUpTo(S, n - 1)
         IN  P \cup {p \cup {a} : p \in P, a \in S}

ListingDocs == SubsetsUpTo(Anchors, MaxAnchors)

\* soup.select(selector): does the anchor match the CSS selector
Matches(selector, a) ==
    CASE selector = "div.lister-item-content h3.lister-item-header a" ->
            a.place \in {"item_content_h3", "content_h3"}
      [] selector = "div.sc-afe43def-1 a.sc-afe43def-2" ->
            a.place = "sc"
      [] selector = "h3.lister-item-header a" ->
            a.place \in {"item_content_h3", "content_h3", "h3"}
      [] selector = "div.lister-item a[href^=/title/]" ->
            a.place \in {"item_content_h3", "item"} /\ a.href # NoHref /\ StartsWithTitle(a.href)
      [] selector = "a.lister-item-header-link" ->
            a.place = "hdrlink"
      [] selector = "a[href^=/title/tt]" ->
            a.href # NoHref /\ StartsWithTitleTT(a.href)
      [] OTHER -> FALSE

Select(doc, selector) == {a \in doc : Matches(selector, a)}

\* --------------------------------------------------------------- link discoverer
\* test_claude.py link_selectors
TC_link_selectors ==
    << "div.lister-item-content h3.lister-item-header a",
       "div.sc-afe43def-1 a.sc-afe43def-2",
       "h3.lister-item-header a",
       "div.lister-item a[href^=/title/]",
       "a.lister-item-header-link",
       "a[href^=/title/tt]" >>

\* ver4_Selenium_Based.py link_selectors
V4_link_selectors ==
    << "a[href^=/title/tt]",
       "div.lister-item-content h3.lister-item-header a",
       "h3.lister-item-header a",
       "div.lister-item a[href^=/title/]",
       "a.lister-item-header-link" >>

\* ver3.py link_selectors: no comma separates the first two literals, so
\* Python joins them into one selector string.
V3_link_selectors ==
    << "a[href^=/title/tt]div.lister-item-content h3.lister-item-header a",
       "div.sc-afe43def-1 a.sc-afe43def-2",
       "h3.lister-item-header a",
       "div.lister-item a[href^=/title/]",
       "a.lister-item-header-link" >>

\* `if href and href.startswith('/title/')`
Usable(a) == GetHref(a) # <<>> /\ StartsWithTitle(GetHref(a))

\* clean_href = href.split('?')[0]; full_url = f"https://www.imdb.com{clean_href}"
CleanLinks(m) == {FullUrl(SplitQuery(GetHref(a))) : a \in {x \in m : Usable(x)}}

\* ver3: full_url = f"https://www.imdb.com{href}"
RawLinks(m) == {FullUrl(GetHref(a)) : a \in {x \in m : Usable(x)}}

\* `if movie_links: ... break`
FoundLinks_OnAnyMatch(m, movie_links) == m # {}

FoundLinks(m, movie_links) == movie_links # {}

NotExtracted == <<"<not extracted>">>

NotRun == [status |-> "not_run", links |-> {}, used |-> 0]

\* The selector loop of test_claude.py and ver4: `used` is the position of the
\* selector at which the loop broke (the one the log line names), 0 if none.
RECURSIVE CleanLoop(_, _, _, _)
CleanLoop(doc, selectors, i, movie_links) ==
    IF i > Len(selectors)
    THEN [status |-> "ok", links |-> movie_links, used |-> 0]
    ELSE LET m == Select(doc, selectors[i])
             added == IF m # {} THEN movie_links \cup CleanLinks(m) ELSE movie_links
         IN  IF m # {} /\ FoundLinks(m, added)
             THEN [status |-> "ok", links |-> added, used |-> i]
             ELSE CleanLoop(doc, selectors, i + 1, added)

TC_extract_movie_links(doc) == CleanLoop(doc, TC_link_selectors, 1, {})

V4_extract_movie_links(doc) == CleanLoop(doc, V4_link_selectors, 1, {})

\* ver3's loop: the links keep their query string.  The joined first selector
\* is either rejected by the CSS engine (select raises) or matches nothing.
RECURSIVE RawLoop(_, _, _, _)
RawLoop(doc, selectors, i, movie_links) ==
    IF i > Len(selectors)
    THEN [status |-> "ok", links |-> movie_links, used |-> 0]
    ELSE LET m == Select(doc, selectors[i])
             added == IF m # {} THEN movie_links \cup RawLinks(m) ELSE movie_links
         IN  IF m # {} /\ added # {}
             THEN [status |-> "ok", links |-> added, used |-> i]
             ELSE RawLoop(doc, selectors, i + 1, added)

V3_extract_movie_links(doc, rejects) ==
    IF rejects
    THEN [status |-> "raised", links |-> {}, used |-> 0]
    ELSE RawLoop(doc, V3_link_selectors, 1, {})

\* ver5 get_movie_links, one page: WebDriverWait raises when no anchor is
\* present, link["href"] raises on an anchor without href.
V5_page_links(doc) ==
    LET m == Select(doc, "h3.lister-item-header a")
    IN  IF m = {} \/ \E a \in m : a.href = NoHref
        THEN [status |-> "raised", links |-> {}, used |-> 0]
        ELSE [status |-> "ok",
              links |-> {ImdbHost \o SplitQuery(a.href) : a \in m},
              used |-> 1]

LinkVariants == {"tc", "v4", "v3", "v5"}

NoSoup == {[href |-> <<"<no soup>">>, place |-> "none"]}

NotWritten == <<[kind |-> "not written"]>>

TcIdle ==
    /\ tc_pc = "idle"
    /\ tc_page = 0
    /\ tc_soup = NoSoup
    /\ tc_movie_links = {}
    /\ tc_new_movie_links = {}
    /\ tc_processed_urls = {}
    /\ tc_futures = <<>>
    /\ tc_all_movies = <<>>
    /\ tc_csv = NotWritten
    /\ tc_trace = <<>>
    /\ tc_calls = {}

V5Idle ==
    /\ v5_pc = "idle"
    /\ v5_movie_links = {}
    /\ v5_futures = <<>>
    /\ v5_movie_details = <<>>
    /\ v5_csv = NotWritten
    /\ v5_calls = {}

LdIdle ==
    /\ ld_variant = "idle"
    /\ ld_doc = {}
    /\ ld_rejects = FALSE
    /\ ld_out = NotRun

FxIdle ==
    /\ fx_field = "idle"
    /\ fx_doc = <<>>
    /\ fx_out = NotExtracted

\* a get_movie_details call that has not given anything back
NotReturned == [kind |-> "not returned"]

NoDetail == [h1 |-> <<"<no response>">>]

DtIdle ==
    /\ dt_pc = "idle"
    /\ dt_url = <<>>
    /\ dt_fetches = <<>>
    /\ dt_soup = NoDetail
    /\ dt_out = NotReturned

V3Idle ==
    /\ v3_pc = "idle"
    /\ v3_page = 0
    /\ v3_rejects = FALSE
    /\ v3_soup = NoSoup
    /\ v3_movie_links = {}
    /\ v3_futures = <<>>
    /\ v3_all_movies = <<>>
    /\ v3_csv = NotWritten

V4Idle ==
    /\ v4_pc = "idle"
    /\ v4_clicks = 0
    /\ v4_soup = NoSoup
    /\ v4_movie_links = {}
    /\ v4_futures = <<>>
    /\ v4_all_movies = <<>>
    /\ v4_csv = NotWritten
    /\ v4_calls = {}

RvIdle ==
    /\ rv_pc = "idle"
    /\ rv_df_movies = <<>>
    /\ rv_futures = <<>>
    /\ rv_all_reviews = <<>>
    /\ rv_total_reviews_dict = <<>>
    /\ rv_movies_file = NotWritten
    /\ rv_reviews_file = NotWritten

PaceIdle == v5_trace = <<>>

\* no scrape_country_films call is being followed
NoCountry == "<no country>"

\* country_codes of scrape_country_films
country_codes == ("Kazakhstan" :> "kz") @@ ("South Korea" :> "kr")

\* the countries main asks for
MainCountries == {"Kazakhstan", "South Korea"}

\* country arguments: the two of main and one without a configured code
Countries == MainCountries \cup {"Narnia"}

\* country.lower()
Lower == ("Kazakhstan" :> "kazakhstan") @@ ("South Korea" :> "south korea") @@ ("Narnia" :> "narnia")

\* country_codes.get(country) of a country that is not a key: None
NoCode == "<None>"

CfgIdle == run_country = NoCountry

DcIdle ==
    /\ dc_variant = "idle"
    /\ dc_pc = "idle"
    /\ dc_doc = {}
    /\ dc_i = 0
    /\ dc_todo = {}
    /\ dc_movie_links = {}
    /\ dc_returned = <<>>

ClIdle ==
    /\ cl_pc = "idle"
    /\ cl_present = {}
    /\ cl_country = 0
    /\ cl_films = <<>>
    /\ cl_reviews = <<>>
    /\ cl_i = 0
    /\ cl_todo = <<>>
    /\ cl_attempt = 0
    /\ cl_calls = 0
    /\ cl_results = <<>>
    /\ cl_returned = <<>>
    /\ cl_written = <<>>
    /\ cl_log = <<>>

R2Idle ==
    /\ r2_pc = "idle"
    /\ r2_title = "<none>"
    /\ r2_content = "<none>"
    /\ r2_attempt = 0
    /\ r2_calls = 0
    /\ r2_strength = <<>>
    /\ r2_weakness = <<>>
    /\ r2_out = NotReturned

MoreIdle == PaceIdle /\ DcIdle /\ ClIdle /\ R2Idle

\* none of the scrapers is followed
ScrapeIdle ==
    /\ LdIdle /\ FxIdle /\ TcIdle /\ V5Idle /\ DtIdle /\ V3Idle /\ V4Idle /\ RvIdle
    /\ PaceIdle /\ CfgIdle

RestIdle == DtIdle /\ V3Idle /\ V4Idle /\ RvIdle /\ MoreIdle

LdInit ==
    /\ ld_variant \in LinkVariants
    /\ ld_doc \in ListingDocs
    /\ ld_rejects \in IF ld_variant = "v3" THEN BOOLEAN ELSE {FALSE}
    /\ ld_out = NotRun
    /\ FxIdle
    /\ TcIdle
    /\ V5Idle
    /\ RestIdle
    /\ CfgIdle

TC_Extract ==
    /\ ld_variant = "tc" /\ ld_out = NotRun
    /\ ld_out' = TC_extract_movie_links(ld_doc)
    /\ UNCHANGED <<ld_variant, ld_doc, ld_rejects, fxVars, tcVars, v5Vars, restVars>>

V4_Extract ==
    /\ ld_variant = "v4" /\ ld_out = NotRun
    /\ ld_out' = V4_extract_movie_links(ld_doc)
    /\ UNCHANGED <<ld_variant, ld_doc, ld_rejects, fxVars, tcVars, v5Vars, restVars>>

V3_Extract ==
    /\ ld_variant = "v3" /\ ld_out = NotRun
    /\ ld_out' = V3_extract_movie_links(ld_doc, ld_rejects)
    /\ UNCHANGED <<ld_variant, ld_doc, ld_rejects, fxVars, tcVars, v5Vars, restVars>>

V5_Extract ==
    /\ ld_variant = "v5" /\ ld_out = NotRun
    /\ ld_out' = V5_page_links(ld_doc)
    /\ UNCHANGED <<ld_variant, ld_doc, ld_rejects, fxVars, tcVars, v5Vars, restVars>>

LdNext == TC_Extract \/ V4_Extract \/ V3_Extract \/ V5_Extract

SpecLinks == LdInit /\ [][LdNext]_vars

\* --------------------------------------------------------------- link discoverer: claims
LdSelectors ==
    CASE ld_variant = "tc" -> TC_link_selectors
      [] ld_variant = "v4" -> V4_link_selectors
      [] ld_variant = "v3" -> V3_link_selectors
      [] OTHER -> << "h3.lister-item-header a" >>

\* the first selector that returns at least one match, 0 if none
FirstMatching(doc, selectors) ==
    LET S == {i \in 1..Len(selectors) : Select(doc, selectors[i]) # {}}
    IN  IF S = {} THEN 0 ELSE Min(S)

\* the first selector whose matches yield at least one usable href, 0 if none
FirstUsable(doc, selectors) ==
    LET S == {i \in 1..Len(selectors) : \E a \in Select(doc, selectors[i]) : Usable(a)}
    IN  IF S = {} THEN 0 ELSE Min(S)

\* the canonical link set one selector produces on its own
CanonOf(doc, selectors, k) ==
    {FullUrl(SplitQuery(a.href)) : a \in {x \in Select(doc, selectors[k]) : Usable(x)}}

LdCleanRun == ld_variant \in {"tc", "v4"} /\ ld_out.status = "ok"

\* C4 as stated: extract_movie_links returns exactly the canonical link set of
\* the first selector with at least one match, also when that selector's
\* elements yield no usable href; later selectors never contribute.
CE_C4 ==
    LdCleanRun =>
        LET k == FirstMatching(ld_doc, LdSelectors)
        IN  k # 0 => /\ ld_out.links = CanonOf(ld_doc, LdSelectors, k)
                     /\ ld_out.used \in {0, k}

\* C4 amended: extract_movie_links returns exactly the canonical link set of
\* the first selector whose matches yield at least one usable href; selectors
\* after it never contribute; a selector before it that matched only unusable
\* elements does not end the search; with no such selector the result is empty.
Thm_C4 ==
    LdCleanRun =>
        LET k == FirstUsable(ld_doc, LdSelectors)
        IN  /\ ld_out.used = k
            /\ k # 0 => ld_out.links = CanonOf(ld_doc, LdSelectors, k)
            /\ k = 0 => ld_out.links = {}

\* an earlier selector matched only anchors without a usable href and the
\* links come from a later selector
Wit_C4 ==
    /\ LdCleanRun
    /\ ld_out.used >= 2
    /\ FirstMatching(ld_doc, LdSelectors) < ld_out.used
    /\ ld_out.links # {}

\* a selector after the one used would have contributed a link that is absent
Wit_C4_later ==
    /\ LdCleanRun
    /\ ld_out.used # 0
    /\ \E j \in (ld_out.used + 1)..Len(LdSelectors) :
           ~ (CanonOf(ld_doc, LdSelectors, j) \subseteq ld_out.links)

\* C5 as stated: in every variant each returned link is absolute with the query
\* string stripped, so hrefs that differ only in their query give one link.
CE_C5 ==
    ld_out.status = "ok" =>
        /\ \A l \in ld_out.links :
               /\ l[1] = ImdbHost[1]
               /\ \A i \in 1..Len(l) : l[i] # "?"
        /\ Cardinality({SplitQuery(l) : l \in ld_out.links}) = Cardinality(ld_out.links)

\* the same statement for the variants other than ver3
Aux_C5_others == ld_variant # "v3" => CE_C5

\* --------------------------------------------------------------- field extractor
Digits == {"0", "1", "2", "3", "4", "5", "6", "7", "8", "9"}

\* the characters the regex class \w matches, among those the texts use
WordChars == Digits \cup {"h", "m", "n", "a", "R", "t", "e", "d", "X", "_"}

\* str.strip() / get_text(strip=True)
RECURSIVE Strip(_)
Strip(s) ==
    IF s = <<>> THEN s
    ELSE IF Head(s) = " " THEN Strip(Tail(s))
    ELSE IF s[Len(s)] = " " THEN Strip(SubSeq(s, 1, Len(s) - 1))
    ELSE s

\* the end of the run of digits that starts at position i
RECURSIVE DigitRunEnd(_, _)
DigitRunEnd(s, i) ==
    IF i < Len(s) /\ s[i + 1] \in Digits THEN DigitRunEnd(s, i + 1) ELSE i

\* re.search(r'(\d+\.?\d*)', text).group(1), <<>> when there is no match
RegexRating(s) ==
    LET starts == {i \in 1..Len(s) : s[i] \in Digits}
    IN  IF starts = {} THEN <<>>
        ELSE LET i == Min(starts)
                 j == DigitRunEnd(s, i)
                 k == IF j < Len(s) /\ s[j + 1] = "." THEN j + 1 ELSE j
                 l == IF k > j /\ k < Len(s) /\ s[k + 1] \in Digits
                      THEN DigitRunEnd(s, k + 1) ELSE k
             IN  SubSeq(s, i, l)

\* re.search(r'\b(19\d{2}|20\d{2})\b', text).group(), <<>> when there is no match
RegexYear(s) ==
    LET hits == {i \in 1..(Len(s) - 3) :
                    /\ \/ s[i] = "1" /\ s[i + 1] = "9"
                       \/ s[i] = "2" /\ s[i + 1] = "0"
                    /\ s[i + 2] \in Digits
                    /\ s[i + 3] \in Digits
                    /\ i = 1 \/ s[i - 1] \notin WordChars
                    /\ i + 3 = Len(s) \/ s[i + 4] \notin WordChars}
    IN  IF hits = {} THEN <<>> ELSE SubSeq(s, Min(hits), Min(hits) + 3)

\* the 'N/A' marker
NA == <<"N", "/", "A">>

\* select_one(selector) found nothing / soup.find found nothing
NoElem == <<"<no element>">>

year_selectors ==
    << "h1 + div div[data-testid=title-metadata] ul li",
       "ul.sc-afe43def-1 > li:first-child",
       "div[data-testid=hero-title-block__metadata] > ul > li",
       "span.sc-8c396aa2-2",
       "li.ipc-inline-list__item:first-child" >>

rating_selectors ==
    << "div[data-testid=hero-rating-bar__aggregate-rating__score] span",
       "span.sc-bde20123-1",
       "div.sc-7ab21ed2-1",
       "span.sc-7ab21ed2-1" >>

\* One pass of the selector loop of extract_year: the value returned from inside
\* the loop, or <<>> when the loop goes on to the next selector.
YearStep_StopOnElem(elem) ==
    IF elem = NoElem THEN <<>>
    ELSE IF RegexYear(Strip(elem)) = <<>> THEN NA ELSE RegexYear(Strip(elem))

YearStep(elem) ==
    IF elem = NoElem THEN <<>> ELSE RegexYear(Strip(elem))

\* the fallback on the page <title>
YearFromTitle(title) ==
    IF title # NoElem /\ RegexYear(title) # <<>> THEN RegexYear(title) ELSE NA

RECURSIVE YearLoop(_, _)
YearLoop(doc, i) ==
    IF i > Len(year_selectors) THEN YearFromTitle(doc.title)
    ELSE IF YearStep(doc.sel[i]) # <<>> THEN YearStep(doc.sel[i])
    ELSE YearLoop(doc, i + 1)

extract_year(doc) == YearLoop(doc, 1)

RatingStep(elem) ==
    IF elem = NoElem THEN <<>> ELSE RegexRating(Strip(elem))

RECURSIVE RatingLoop(_, _)
RatingLoop(doc, i) ==
    IF i > Len(rating_selectors) THEN NA
    ELSE IF RatingStep(doc.sel[i]) # <<>> THEN RatingStep(doc.sel[i])
    ELSE RatingLoop(doc, i + 1)

extract_rating(doc) == RatingLoop(doc, 1)

\* element texts of detail pages
YearTexts ==
    { <<"2", "0", "1", "9">>,
      <<"1", "h", " ", "3", "0", "m">>,
      <<"2", "0", "1", "9", "0">>,
      <<" ", "(", "1", "9", "9", "9", ")">> }

TitleTexts ==
    { <<"X", " ", "(", "2", "0", "0", "1", ")">>,
      <<"X">> }

RatingTexts ==
    { <<"7", ".", "4", " ", "/", " ", "1", "0">>,
      <<"R", "a", "t", "e", "d", " ", "7", ".", "4", "/", "1", "0">>,
      <<" ", "8", " ">>,
      <<"n", "/", "a">>,
      <<>> }

YearDocs ==
    [sel : [1..Len(year_selectors) -> YearTexts \cup {NoElem}],
     title : TitleTexts \cup {NoElem}]

RatingDocs ==
    [sel : [1..Len(rating_selectors) -> RatingTexts \cup {NoElem}]]

FxInit ==
    /\ fx_field \in {"year", "rating"}
    /\ fx_doc \in IF fx_field = "year" THEN YearDocs ELSE RatingDocs
    /\ fx_out = NotExtracted
    /\ LdIdle
    /\ TcIdle
    /\ V5Idle
    /\ RestIdle
    /\ CfgIdle

ExtractYear ==
    /\ fx_field = "year" /\ fx_out = NotExtracted
    /\ fx_out' = extract_year(fx_doc)
    /\ UNCHANGED <<fx_field, fx_doc, ldVars, tcVars, v5Vars, restVars>>

ExtractRating ==
    /\ fx_field = "rating" /\ fx_out = NotExtracted
    /\ fx_out' = extract_rating(fx_doc)
    /\ UNCHANGED <<fx_field, fx_doc, ldVars, tcVars, v5Vars, restVars>>

FxNext == ExtractYear \/ ExtractRating

SpecFields == FxInit /\ [][FxNext]_vars

\* --------------------------------------------------------------- field extractor: claims
\* the normalized value of strategy i of the field under test (<<>> if empty);
\* for the year, strategy Len(year_selectors) + 1 is the <title> fallback
FxNorm(i) ==
    IF fx_field = "rating"
    THEN IF fx_doc.sel[i] = NoElem THEN <<>> ELSE RegexRating(Strip(fx_doc.sel[i]))
    ELSE IF i <= Len(year_selectors)
         THEN IF fx_doc.sel[i] = NoElem THEN <<>> ELSE RegexYear(Strip(fx_doc.sel[i]))
         ELSE IF fx_doc.title = NoElem THEN <<>> ELSE RegexYear(fx_doc.title)

FxStrategies ==
    IF fx_field = "rating" THEN 1..Len(rating_selectors)
    ELSE 1..(Len(year_selectors) + 1)

FxNonEmpty == {i \in FxStrategies : FxNorm(i) # <<>>}

\* selector1 finds nothing and selector2 finds the text "7.4 / 10"
FxScenario ==
    /\ fx_field = "rating"
    /\ fx_doc.sel[1] = NoElem
    /\ fx_doc.sel[2] = <<"7", ".", "4", " ", "/", " ", "1", "0">>

\* C6: the extracted year or rating is the normalized result of the first
\* strategy whose match is non-empty after normalization; a strategy whose node
\* is found but normalizes to nothing does not end the search; with every
\* strategy empty the result is 'N/A'; selector1 empty and selector2 giving
\* "7.4 / 10" yields 7.4.
Thm_C6 ==
    fx_out # NotExtracted =>
        /\ FxNonEmpty # {} => fx_out = FxNorm(Min(FxNonEmpty))
        /\ FxNonEmpty = {} => fx_out = NA
        /\ FxScenario => fx_out = <<"7", ".", "4">>

\* an earlier strategy found its node but normalized to nothing, and the value
\* comes from a later strategy
Wit_C6 ==
    /\ fx_out # NotExtracted
    /\ FxNonEmpty # {}
    /\ \E i \in 1..(Min(FxNonEmpty) - 1) : fx_doc.sel[i] # NoElem
    /\ fx_out # NA

\* --------------------------------------------------------------- detail fetcher
\* the placeholder title of get_movie_details
Unknown == <<"U", "n", "k", "n", "o", "w", "n">>

\* what a get_movie_details call gives back: a movie_data record, None, or an
\* exception that leaves the worker
NoneResult ==
    [kind |-> "none", title |-> <<>>, year |-> <<>>, imdb_rating |-> <<>>, url |-> <<>>]

RaisedResult ==
    [kind |-> "raised", title |-> <<>>, year |-> <<>>, imdb_rating |-> <<>>, url |-> <<>>]

\* title_elem.text.strip() if title_elem else 'Unknown'
TitleOf(h1) == IF h1 = NoElem THEN Unknown ELSE Strip(h1)

\* the `== 'N/A'` gates on year and rating
get_movie_details_NoRatingGate(movie_url, net, doc) ==
    IF net = "request_exception" THEN NoneResult
    ELSE IF net = "other_exception" THEN RaisedResult
    ELSE IF extract_year(doc.year) = NA THEN NoneResult
    ELSE [kind |-> "record", title |-> TitleOf(doc.h1), year |-> extract_year(doc.year),
          imdb_rating |-> extract_rating(doc.rating), url |-> SplitQuery(movie_url)]

get_movie_details_DiscardUnknown(movie_url, net, doc) ==
    IF net = "request_exception" THEN NoneResult
    ELSE IF net = "other_exception" THEN RaisedResult
    ELSE IF TitleOf(doc.h1) = Unknown THEN NoneResult
    ELSE IF extract_year(doc.year) = NA THEN NoneResult
    ELSE IF extract_rating(doc.rating) = NA THEN NoneResult
    ELSE [kind |-> "record", title |-> TitleOf(doc.h1), year |-> extract_year(doc.year),
          imdb_rating |-> extract_rating(doc.rating), url |-> SplitQuery(movie_url)]

\* net is the outcome of requests.get / raise_for_status / parsing: "ok",
\* "request_exception" (caught inside, gives None) or "other_exception" (any
\* exception that is no RequestException: it leaves the function)
get_movie_details(movie_url, net, doc) ==
    IF net = "request_exception" THEN NoneResult
    ELSE IF net = "other_exception" THEN RaisedResult
    ELSE IF extract_year(doc.year) = NA THEN NoneResult
    ELSE IF extract_rating(doc.rating) = NA THEN NoneResult
    ELSE [kind |-> "record", title |-> TitleOf(doc.h1), year |-> extract_year(doc.year),
          imdb_rating |-> extract_rating(doc.rating), url |-> SplitQuery(movie_url)]

NetOutcomes == {"ok", "request_exception", "other_exception"}

\* detail pages
YearDocOf(e, t) == [sel |-> [i \in 1..Len(year_selectors) |-> IF i = 2 THEN e ELSE NoElem],
                    title |-> t]

RatingDocOf(e) == [sel |-> [i \in 1..Len(rating_selectors) |-> IF i = 2 THEN e ELSE NoElem]]

GoodYear == YearDocOf(<<"2", "0", "1", "9">>, <<"X">>)
NoYear == YearDocOf(<<"1", "h", " ", "3", "0", "m">>, <<"X">>)
GoodRating == RatingDocOf(<<"7", ".", "4", " ", "/", " ", "1", "0">>)
NoRating == RatingDocOf(<<"n", "/", "a">>)

DetailDocs ==
    { [h1 |-> <<" ", "X", " ">>, year |-> GoodYear, rating |-> GoodRating],
      [h1 |-> NoElem, year |-> GoodYear, rating |-> GoodRating],
      [h1 |-> <<" ", "X", " ">>, year |-> NoYear, rating |-> GoodRating],
      [h1 |-> <<" ", "X", " ">>, year |-> GoodYear, rating |-> NoRating] }

\* --------------------------------------------------------------- listing pages of a run
TitleHref(id) == <<"/title/", "tt", id>>

InHeader(h) == [href |-> h, place |-> "item_content_h3"]

Page_ABC ==
    { InHeader(TitleHref("1/") \o <<"?", "ref_=li_tt">>),
      InHeader(TitleHref("2/")),
      InHeader(TitleHref("3/")) }

Page_BCD ==
    { InHeader(TitleHref("2/")),
      InHeader(TitleHref("3/") \o <<"?", "ref_=li_i">>),
      InHeader(TitleHref("4/")) }

Page_A ==
    { InHeader(TitleHref("1/") \o <<"?", "ref_=li_tt">>),
      InHeader(TitleHref("1/") \o <<"?", "ref_=li_i">>) }

Page_NoLinks == { [href |-> <<"/name/", "nm", "1/">>, place |-> "h3"] }

PageDocs == {Page_ABC, Page_BCD, Page_A, Page_NoLinks}

Url(id) == FullUrl(TitleHref(id))

\* --------------------------------------------------------------- test_claude.py scrape_country_films
\* the country argument of the call that is followed
Country == run_country

\* processed_urls.update(link.split('?')[0] for link in new_movie_links)
UpdateProcessed_Replace(processed_urls, new_movie_links) ==
    {SplitQuery(l) : l \in new_movie_links}

UpdateProcessed_Skip(processed_urls, new_movie_links) == processed_urls

UpdateProcessed(processed_urls, new_movie_links) ==
    processed_urls \cup {SplitQuery(l) : l \in new_movie_links}

\* [link for link in movie_links if link.split('?')[0] not in processed_urls]
NewLinks_All(movie_links, processed_urls) == movie_links

NewLinks(movie_links, processed_urls) ==
    {l \in movie_links : SplitQuery(l) \notin processed_urls}

\* the body of the as_completed loop for one future
CollectResult_ResetOnError(all_movies, result) ==
    IF result.kind = "record"
    THEN Append(all_movies, [title |-> result.title, year |-> result.year,
                             imdb_rating |-> result.imdb_rating, url |-> result.url,
                             country |-> Country])
    ELSE IF result.kind = "raised" THEN <<>> ELSE all_movies

CollectResult(all_movies, result) ==
    IF result.kind = "record"
    THEN Append(all_movies, [title |-> result.title, year |-> result.year,
                             imdb_rating |-> result.imdb_rating, url |-> result.url,
                             country |-> Country])
    ELSE all_movies

\* country_code = country_codes.get(country, country.lower()): every country
\* gets a code
TC_country_code(country) ==
    IF country \in DOMAIN country_codes THEN country_codes[country] ELSE Lower[country]

\* a call scrape_country_films(country, ...) with country among `countries`,
\* at the head of its page loop
TcStart(countries) ==
    /\ run_country \in countries
    /\ tc_pc = IF TC_country_code(run_country) = NoCode THEN "done" ELSE "fetch"
    /\ tc_page = 1
    /\ tc_soup = NoSoup
    /\ tc_movie_links = {}
    /\ tc_new_movie_links = {}
    /\ tc_processed_urls = {}
    /\ tc_futures = <<>>
    /\ tc_all_movies = <<>>
    /\ tc_csv = NotWritten
    /\ tc_trace = <<>>
    /\ tc_calls = {}
    /\ LdIdle
    /\ FxIdle
    /\ V5Idle
    /\ RestIdle

\* the first call made by main
TcInit == TcStart({"Kazakhstan"})

\* get_imdb_search_results returns None: `if not soup: break`
TC_FetchFailed ==
    /\ tc_pc = "fetch"
    /\ tc_pc' = "save"
    /\ tc_soup' = NoSoup
    /\ tc_trace' = Append(tc_trace, [status |-> "failed", links |-> {}])
    /\ UNCHANGED <<tc_page, tc_movie_links, tc_new_movie_links, tc_processed_urls,
                   tc_futures, tc_all_movies, tc_csv, tc_calls, ldVars, fxVars, v5Vars, restVars>>

\* get_imdb_search_results returns the parsed page
TC_FetchPage ==
    /\ tc_pc = "fetch"
    /\ \E doc \in PageDocs : tc_soup' = doc
    /\ tc_pc' = "extract"
    /\ UNCHANGED <<tc_page, tc_movie_links, tc_new_movie_links, tc_processed_urls,
                   tc_futures, tc_all_movies, tc_csv, tc_trace, tc_calls, ldVars, fxVars, v5Vars, restVars>>

\* `if not movie_links:`
NoLinks_Never(movie_links) == FALSE

NoLinks(movie_links) == movie_links = {}

\* movie_links = self.extract_movie_links(soup); `if not movie_links: break`
TC_ExtractLinks ==
    /\ tc_pc = "extract"
    /\ tc_movie_links' = TC_extract_movie_links(tc_soup).links
    /\ tc_pc' = IF NoLinks(tc_movie_links') THEN "save" ELSE "dedup"
    /\ tc_trace' = Append(tc_trace,
                          [status |-> IF tc_movie_links' = {} THEN "nolinks" ELSE "ok",
                           links |-> tc_movie_links'])
    /\ UNCHANGED <<tc_page, tc_soup, tc_new_movie_links, tc_processed_urls,
                   tc_futures, tc_all_movies, tc_csv, tc_calls, ldVars, fxVars, v5Vars, restVars>>

\* new_movie_links and the update of processed_urls
TC_Dedup ==
    /\ tc_pc = "dedup"
    /\ tc_new_movie_links' = NewLinks(tc_movie_links, tc_processed_urls)
    /\ tc_processed_urls' = UpdateProcessed(tc_processed_urls, tc_new_movie_links')
    /\ tc_pc' = "submit"
    /\ UNCHANGED <<tc_page, tc_soup, tc_movie_links, tc_futures, tc_all_movies,
                   tc_csv, tc_trace, tc_calls, ldVars, fxVars, v5Vars, restVars>>

Pending == [state |-> "pending", result |-> NoneResult]

\* executor.submit(self.get_movie_details, link) for every new link
TC_Submit ==
    /\ tc_pc = "submit"
    /\ tc_futures' = [l \in tc_new_movie_links |-> Pending]
    /\ tc_pc' = "collect"
    /\ UNCHANGED <<tc_page, tc_soup, tc_movie_links, tc_new_movie_links,
                   tc_processed_urls, tc_all_movies, tc_csv, tc_trace, tc_calls,
                   ldVars, fxVars, v5Vars, restVars>>

TcRunning == {l \in DOMAIN tc_futures : tc_futures[l].state = "running"}

\* a pool thread takes a queued task
TC_WorkerStart ==
    /\ tc_pc = "collect"
    /\ Cardinality(TcRunning) < MaxWorkers
    /\ \E l \in DOMAIN tc_futures :
           /\ tc_futures[l].state = "pending"
           /\ tc_futures' = [tc_futures EXCEPT ![l].state = "running"]
    /\ UNCHANGED <<tc_pc, tc_page, tc_soup, tc_movie_links, tc_new_movie_links,
                   tc_processed_urls, tc_all_movies, tc_csv, tc_trace, tc_calls,
                   ldVars, fxVars, v5Vars, restVars>>

\* get_movie_details returns or raises in its pool thread
TC_WorkerFinish ==
    /\ tc_pc = "collect"
    /\ \E l \in DOMAIN tc_futures, net \in NetOutcomes, doc \in DetailDocs :
           /\ tc_futures[l].state = "running"
           /\ net # "ok" => doc = CHOOSE d \in DetailDocs : TRUE
           /\ LET r == get_movie_details(l, net, doc)
              IN  /\ tc_futures' = [tc_futures EXCEPT ![l] = [state |-> "done", result |-> r]]
                  /\ tc_calls' = tc_calls \cup
                         {[page |-> tc_page, link |-> l, net |-> net, doc |-> doc, result |-> r]}
    /\ UNCHANGED <<tc_pc, tc_page, tc_soup, tc_movie_links, tc_new_movie_links,
                   tc_processed_urls, tc_all_movies, tc_csv, tc_trace, ldVars, fxVars, v5Vars, restVars>>

\* one pass of `for future in as_completed(future_to_url)`
TC_Collect ==
    /\ tc_pc = "collect"
    /\ \E l \in DOMAIN tc_futures :
           /\ tc_futures[l].state = "done"
           /\ tc_all_movies' = CollectResult(tc_all_movies, tc_futures[l].result)
           /\ tc_futures' = [tc_futures EXCEPT ![l].state = "collected"]
    /\ UNCHANGED <<tc_pc, tc_page, tc_soup, tc_movie_links, tc_new_movie_links,
                   tc_processed_urls, tc_csv, tc_trace, tc_calls, ldVars, fxVars, v5Vars, restVars>>

\* as_completed is exhausted and the `with` block is left
TC_ExitPool ==
    /\ tc_pc = "collect"
    /\ \A l \in DOMAIN tc_futures : tc_futures[l].state = "collected"
    /\ tc_pc' = "sleep"
    /\ UNCHANGED <<tc_page, tc_soup, tc_movie_links, tc_new_movie_links,
                   tc_processed_urls, tc_futures, tc_all_movies, tc_csv, tc_trace,
                   tc_calls, ldVars, fxVars, v5Vars, restVars>>

\* time.sleep(2), then the next value of `for page in range(1, max_pages + 1)`
TC_Sleep ==
    /\ tc_pc = "sleep"
    /\ IF tc_page < MaxPages
       THEN tc_page' = tc_page + 1 /\ tc_pc' = "fetch"
       ELSE tc_page' = tc_page /\ tc_pc' = "save"
    /\ UNCHANGED <<tc_soup, tc_movie_links, tc_new_movie_links, tc_processed_urls,
                   tc_futures, tc_all_movies, tc_csv, tc_trace, tc_calls, ldVars, fxVars, v5Vars, restVars>>

\* df = pd.DataFrame(all_movies); df.to_csv(...); return df
TC_Save ==
    /\ tc_pc = "save"
    /\ tc_csv' = tc_all_movies
    /\ tc_pc' = "done"
    /\ UNCHANGED <<tc_page, tc_soup, tc_movie_links, tc_new_movie_links,
                   tc_processed_urls, tc_futures, tc_all_movies, tc_trace, tc_calls,
                   ldVars, fxVars, v5Vars, restVars>>

TcNext ==
    \/ TC_FetchFailed
    \/ TC_FetchPage
    \/ TC_ExtractLinks
    \/ TC_Dedup
    \/ TC_Submit
    \/ TC_WorkerStart
    \/ TC_WorkerFinish
    \/ TC_Collect
    \/ TC_ExitPool
    \/ TC_Sleep
    \/ TC_Save

SpecScrape == TcInit /\ [][TcNext]_vars

\* --------------------------------------------------------------- scrape_country_films: claims
\* the links discovered on the first n listing pages
TcSeen(n) == UNION {tc_trace[i].links : i \in 1..n}

\* the number of listing pages whose links have gone through the dedup step
TcDeduped == IF tc_pc = "dedup" THEN Len(tc_trace) - 1 ELSE Len(tc_trace)

TcRow(r) ==
    [title |-> r.title, year |-> r.year, imdb_rating |-> r.imdb_rating, url |-> r.url,
     country |-> Country]

TcRows == {tc_all_movies[i] : i \in 1..Len(tc_all_movies)}

TcRowUrls == {tc_all_movies[i].url : i \in 1..Len(tc_all_movies)}

\* the calls whose future the orchestrator has been through
TcCollected ==
    {c \in tc_calls : \/ c.page < tc_page
                      \/ tc_pc \in {"sleep", "save", "done"}
                      \/ tc_futures[c.link].state = "collected"}

C1_State ==
    /\ tc_processed_urls = {SplitQuery(l) : l \in TcSeen(TcDeduped)}
    /\ Cardinality(tc_processed_urls) = Cardinality({SplitQuery(l) : l \in TcSeen(TcDeduped)})

\* C1: processed_urls holds exactly the distinct canonical identifiers of the
\* listing pages handled so far (re-adding a known identifier changes nothing,
\* the size is the number of distinct identifiers), and it never shrinks.
Thm_C1 ==
    /\ [] C1_State
    /\ [][tc_processed_urls \subseteq tc_processed_urls']_vars

\* a second page whose links overlap the first has been merged
Wit_C1 ==
    /\ tc_pc = "submit"
    /\ Len(tc_trace) = 2
    /\ tc_trace[1].links \cap tc_trace[2].links # {}
    /\ ~ (tc_trace[2].links \subseteq tc_trace[1].links)
    /\ Cardinality(tc_processed_urls) = 4

ABC == {Url("1/"), Url("2/"), Url("3/")}
BCD == {Url("2/"), Url("3/"), Url("4/")}

TcScenario ==
    /\ Len(tc_trace) = 2
    /\ tc_trace[1].links = ABC
    /\ tc_trace[2].links = BCD

\* C3: with page 1 yielding {A,B,C} and page 2 yielding {B,C,D} the set after
\* page 1 is {A,B,C}, page 2 contributes only {D} and the final set is
\* {A,B,C,D}; in general the detail fetches of a page are the page's links
\* minus the links of the earlier pages, and no identifier is fetched twice.
Thm_C3 ==
    /\ (Len(tc_trace) = 1 /\ tc_trace[1].links = ABC /\ tc_pc # "dedup") =>
           tc_processed_urls = ABC
    /\ (TcScenario /\ tc_pc = "dedup") => tc_processed_urls = ABC
    /\ (TcScenario /\ tc_pc # "dedup") =>
           /\ tc_new_movie_links = {Url("4/")}
           /\ tc_processed_urls = ABC \cup BCD
    /\ tc_pc = "collect" =>
           DOMAIN tc_futures = tc_trace[tc_page].links \ TcSeen(tc_page - 1)
    /\ \A c, d \in tc_calls : SplitQuery(c.link) = SplitQuery(d.link) => c = d
    /\ tc_pc = "collect" =>
           \A l \in DOMAIN tc_futures, c \in tc_calls :
               c.page < tc_page => SplitQuery(c.link) # SplitQuery(l)

\* page 2 of the scenario has been dispatched: only D is fetched
Wit_C3 ==
    /\ TcScenario
    /\ tc_pc = "collect"
    /\ DOMAIN tc_futures = {Url("4/")}
    /\ Cardinality(tc_calls) = 3

\* C7: every record in all_movies has a year and a rating other than 'N/A'; a
\* detail page on which the year or rating is empty under all strategies gives
\* no record at all.
Thm_C7 ==
    /\ \A i \in 1..Len(tc_all_movies) :
           /\ tc_all_movies[i].year \notin {NA, <<>>}
           /\ tc_all_movies[i].imdb_rating \notin {NA, <<>>}
    /\ \A c \in tc_calls :
           (c.net = "ok" /\ (extract_year(c.doc.year) = NA \/ extract_rating(c.doc.rating) = NA)) =>
               /\ c.result = NoneResult
               /\ SplitQuery(c.link) \notin TcRowUrls

\* a page without a rating and a page without a year were fetched and gated,
\* next to a page that gave a record
Wit_C7 ==
    /\ tc_pc = "done"
    /\ Len(tc_csv) >= 1
    /\ \E c \in tc_calls : c.net = "ok" /\ extract_rating(c.doc.rating) = NA
    /\ \E c \in tc_calls : c.net = "ok" /\ extract_year(c.doc.year) = NA

\* C8 as stated: a detail record whose title is missing is discarded and not
\* included in the ResultTable.
CE_C8 ==
    \A c \in tc_calls :
        (c.net = "ok" /\ c.doc.h1 = NoElem) => SplitQuery(c.link) \notin TcRowUrls

\* C8 amended: a detail record whose title is missing is kept, once, with the
\* title 'Unknown' when its year and rating were found; a record is discarded
\* only when the year or the rating is missing.
Thm_C8 ==
    \A c \in TcCollected :
        c.net = "ok" =>
            LET rows == {i \in 1..Len(tc_all_movies) : tc_all_movies[i].url = SplitQuery(c.link)}
                gated == extract_year(c.doc.year) = NA \/ extract_rating(c.doc.rating) = NA
            IN  /\ gated => rows = {}
                /\ ~gated => Cardinality(rows) = 1
                /\ (~gated /\ c.doc.h1 = NoElem) =>
                       \A i \in rows : tc_all_movies[i].title = Unknown
                /\ (~gated /\ c.doc.h1 # NoElem) =>
                       \A i \in rows : tc_all_movies[i].title = Strip(c.doc.h1)

\* the table written at the end holds a row titled 'Unknown'
Wit_C8 ==
    /\ tc_pc = "done"
    /\ \E i \in 1..Len(tc_csv) : tc_csv[i].title = Unknown
    /\ \E c \in tc_calls : c.net = "ok" /\ c.doc.h1 = NoElem /\ c.result.kind = "record"

TcSucceeded == {c \in tc_calls : c.result.kind = "record"}

\* C9: whatever fetches fail (request error, or an exception leaving the
\* worker), once a page's futures are collected the table holds exactly one row
\* per fetch that returned a record, in every completion order, and that table
\* is what is written.
Thm_C9 ==
    /\ tc_pc # "collect" =>
           /\ Len(tc_all_movies) = Cardinality(TcSucceeded)
           /\ TcRows = {TcRow(c.result) : c \in TcSucceeded}
    /\ \A c \in TcCollected : c.result.kind = "record" => TcRow(c.result) \in TcRows
    /\ tc_pc = "done" => tc_csv = tc_all_movies

\* on one page one fetch raised, one failed in transport and one gave a record
Wit_C9 ==
    /\ tc_pc = "done"
    /\ \E c, d, e \in tc_calls :
           /\ c.page = d.page /\ d.page = e.page
           /\ c.net = "other_exception"
           /\ d.net = "request_exception"
           /\ e.result.kind = "record"
    /\ Len(tc_csv) >= 1

\* --------------------------------------------------------------- ver5.py scrape_movies
\* what driver.get returns for a listing page; the empty page makes
\* WebDriverWait time out
V5_Pages == {Page_A, Page_BCD, {}}

\* detail pages as ver5's get_movie_details reads them
V5_DetailDocs ==
    { [h1 |-> <<" ", "X", " ">>, year |-> <<"2", "0", "1", "9">>, rating |-> <<"7", ".", "4">>],
      [h1 |-> NoElem, year |-> NoElem, rating |-> NoElem] }

\* tag.text.strip() if tag else "N/A"
TextOrNA(elem) == IF elem = NoElem THEN NA ELSE Strip(elem)

\* the movie_data dict built by get_movie_details
V5_movie_data(doc) ==
    [Title |-> TextOrNA(doc.h1), Year |-> TextOrNA(doc.year), Rating |-> TextOrNA(doc.rating)]

\* get_movie_links over pages 1..max_pages: the union of the pages' links, or
\* "raised" when a page raises
V5_get_movie_links(pages) ==
    IF \E p \in DOMAIN pages : V5_page_links(pages[p]).status = "raised"
    THEN [status |-> "raised", links |-> {}]
    ELSE [status |-> "ok", links |-> UNION {V5_page_links(pages[p]).links : p \in DOMAIN pages}]

V5Init ==
    /\ v5_pc = "links"
    /\ v5_movie_links = {}
    /\ v5_futures = <<>>
    /\ v5_movie_details = <<>>
    /\ v5_csv = NotWritten
    /\ v5_calls = {}
    /\ LdIdle
    /\ FxIdle
    /\ TcIdle
    /\ RestIdle
    /\ CfgIdle

\* the browser operations of get_movie_links from page p on: driver.get and
\* WebDriverWait(...).until for each page, one straight after the other, and
\* driver.quit() in the finally clause
RECURSIVE V5_browser_ops(_, _)
V5_browser_ops(pages, p) ==
    IF p > Len(pages)
    THEN <<"quit">>
    ELSE IF V5_page_links(pages[p]).status = "raised"
         THEN <<"get", "wait", "quit">>
         ELSE <<"get", "wait">> \o V5_browser_ops(pages, p + 1)

\* the variables of the other programs, as seen from get_movie_links
v5OtherVars == <<ldVars, fxVars, tcVars, dtVars, v3Vars, v4Vars, rvVars, cfgVars,
                 dcVars, clVars, r2Vars>>

\* movie_links = self.get_movie_links() raises: scrape_movies is left
V5_GetLinksRaises ==
    /\ v5_pc = "links"
    /\ \E pages \in [1..MaxPages -> V5_Pages] :
           /\ V5_get_movie_links(pages).status = "raised"
           /\ v5_trace' = V5_browser_ops(pages, 1)
    /\ v5_pc' = "aborted"
    /\ UNCHANGED <<v5_movie_links, v5_futures, v5_movie_details, v5_csv, v5_calls,
                   v5OtherVars>>

\* movie_links = self.get_movie_links(), then executor.submit for every link
V5_GetLinks ==
    /\ v5_pc = "links"
    /\ \E pages \in [1..MaxPages -> V5_Pages] :
           /\ V5_get_movie_links(pages).status = "ok"
           /\ v5_movie_links' = V5_get_movie_links(pages).links
           /\ v5_trace' = V5_browser_ops(pages, 1)
    /\ v5_futures' = [l \in v5_movie_links' |-> "pending"]
    /\ v5_pc' = "collect"
    /\ UNCHANGED <<v5_movie_details, v5_csv, v5_calls, v5OtherVars>>

V5Running == {l \in DOMAIN v5_futures : v5_futures[l] = "running"}

\* a pool thread takes a queued task
V5_WorkerStart ==
    /\ v5_pc \in {"collect", "unwind"}
    /\ Cardinality(V5Running) < MaxWorkers
    /\ \E l \in DOMAIN v5_futures :
           /\ v5_futures[l] = "pending"
           /\ v5_futures' = [v5_futures EXCEPT ![l] = "running"]
    /\ UNCHANGED <<v5_pc, v5_movie_links, v5_movie_details, v5_csv, v5_calls,
                   ldVars, fxVars, tcVars, restVars>>

\* get_movie_details reaches self.movie_details.append(movie_data)
V5_WorkerAppends_Overwrite ==
    /\ v5_pc \in {"collect", "unwind"}
    /\ \E l \in DOMAIN v5_futures, doc \in V5_DetailDocs :
           /\ v5_futures[l] = "running"
           /\ v5_movie_details' = <<V5_movie_data(doc)>>
           /\ v5_futures' = [v5_futures EXCEPT ![l] = "returned"]
           /\ v5_calls' = v5_calls \cup {[link |-> l, outcome |-> "returned"]}
    /\ UNCHANGED <<v5_pc, v5_movie_links, v5_csv, ldVars, fxVars, tcVars, restVars>>

V5_WorkerAppends ==
    /\ v5_pc \in {"collect", "unwind"}
    /\ \E l \in DOMAIN v5_futures, doc \in V5_DetailDocs :
           /\ v5_futures[l] = "running"
           /\ v5_movie_details' = Append(v5_movie_details, V5_movie_data(doc))
           /\ v5_futures' = [v5_futures EXCEPT ![l] = "returned"]
           /\ v5_calls' = v5_calls \cup {[link |-> l, outcome |-> "returned"]}
    /\ UNCHANGED <<v5_pc, v5_movie_links, v5_csv, ldVars, fxVars, tcVars, restVars>>

\* setup_driver, driver.get or WebDriverWait raises: nothing is appended
V5_WorkerRaises ==
    /\ v5_pc \in {"collect", "unwind"}
    /\ \E l \in DOMAIN v5_futures :
           /\ v5_futures[l] = "running"
           /\ v5_futures' = [v5_futures EXCEPT ![l] = "raised"]
           /\ v5_calls' = v5_calls \cup {[link |-> l, outcome |-> "raised"]}
    /\ UNCHANGED <<v5_pc, v5_movie_links, v5_movie_details, v5_csv,
                   ldVars, fxVars, tcVars, restVars>>

\* future.result() of a future that returned
V5_Collect ==
    /\ v5_pc = "collect"
    /\ \E l \in DOMAIN v5_futures :
           /\ v5_futures[l] = "returned"
           /\ v5_futures' = [v5_futures EXCEPT ![l] = "collected"]
    /\ UNCHANGED <<v5_pc, v5_movie_links, v5_movie_details, v5_csv, v5_calls,
                   ldVars, fxVars, tcVars, restVars>>

\* future.result() of a future that raised: the exception leaves the loop
V5_CollectRaises ==
    /\ v5_pc = "collect"
    /\ \E l \in DOMAIN v5_futures :
           /\ v5_futures[l] = "raised"
           /\ v5_futures' = [v5_futures EXCEPT ![l] = "reraised"]
    /\ v5_pc' = "unwind"
    /\ UNCHANGED <<v5_movie_links, v5_movie_details, v5_csv, v5_calls,
                   ldVars, fxVars, tcVars, restVars>>

V5Finished == {"returned", "raised", "collected", "reraised"}

\* the `with` block is left on the exception: shutdown(wait=True) joins the
\* workers, then the exception leaves scrape_movies
V5_Unwind ==
    /\ v5_pc = "unwind"
    /\ \A l \in DOMAIN v5_futures : v5_futures[l] \in V5Finished
    /\ v5_pc' = "aborted"
    /\ UNCHANGED <<v5_movie_links, v5_futures, v5_movie_details, v5_csv, v5_calls,
                   ldVars, fxVars, tcVars, restVars>>

\* as_completed is exhausted and the `with` block is left
V5_ExitPool ==
    /\ v5_pc = "collect"
    /\ \A l \in DOMAIN v5_futures : v5_futures[l] = "collected"
    /\ v5_pc' = "save"
    /\ UNCHANGED <<v5_movie_links, v5_futures, v5_movie_details, v5_csv, v5_calls,
                   ldVars, fxVars, tcVars, restVars>>

\* self.save_to_csv()
V5_Save ==
    /\ v5_pc = "save"
    /\ v5_csv' = v5_movie_details
    /\ v5_pc' = "done"
    /\ UNCHANGED <<v5_movie_links, v5_futures, v5_movie_details, v5_calls,
                   ldVars, fxVars, tcVars, restVars>>

V5Next ==
    \/ V5_GetLinksRaises
    \/ V5_GetLinks
    \/ V5_WorkerStart
    \/ V5_WorkerAppends
    \/ V5_WorkerRaises
    \/ V5_Collect
    \/ V5_CollectRaises
    \/ V5_Unwind
    \/ V5_ExitPool
    \/ V5_Save

SpecV5 == V5Init /\ [][V5Next]_vars

\* --------------------------------------------------------------- scrape_movies: claims
\* C10: in ver5 a detail fetch that raises never aborts the run: once
\* scrape_movies has ended, save_to_csv has written every record the other
\* workers extracted.
CE_C10 ==
    (v5_pc \in {"done", "aborted"} /\ \E c \in v5_calls : c.outcome = "raised") =>
        /\ v5_pc = "done"
        /\ v5_csv = v5_movie_details

\* without a raising fetch the run does end with the table written
Aux_C10_no_failure ==
    (v5_pc \in {"done", "aborted"} /\ v5_futures # <<>>
        /\ \A c \in v5_calls : c.outcome = "returned") =>
        /\ v5_pc = "done"
        /\ v5_csv = v5_movie_details
        /\ Len(v5_csv) = Cardinality(v5_movie_links)

\* --------------------------------------------------------------- get_movie_details: one call
\* movie_url arguments: canonical links and links that carry a query string
DtUrls ==
    {FullUrl(TitleHref(id)) : id \in {"1/", "2/", "3/", "4/"}}
        \cup {FullUrl(TitleHref(id) \o <<"?", "ref_=li_tt">>) : id \in {"1/", "2/", "3/", "4/"}}

\* how requests.get(unique_url, timeout=self.timeout) and raise_for_status end:
\* a response, requests.Timeout, requests.ConnectionError, requests.HTTPError,
\* or an exception that is no RequestException
FetchFailures == {"timeout", "connection_error", "http_error", "other_exception"}

\* Timeout, ConnectionError and HTTPError are RequestExceptions
NetOf(outcome) ==
    IF outcome = "ok" THEN "ok"
    ELSE IF outcome = "other_exception" THEN "other_exception"
    ELSE "request_exception"

\* the `except requests.RequestException` clause, entered after `fetches`
OnRequestException_Retry(fetches) ==
    IF Len(fetches) < 3 THEN "fetch_again" ELSE "return_none"

OnRequestException(fetches) == "return_none"

DtInit ==
    /\ dt_pc = "call"
    /\ dt_url \in DtUrls
    /\ dt_fetches = <<>>
    /\ dt_soup = NoDetail
    /\ dt_out = NotReturned
    /\ LdIdle
    /\ FxIdle
    /\ TcIdle
    /\ V5Idle
    /\ V3Idle
    /\ V4Idle
    /\ RvIdle
    /\ CfgIdle
    /\ MoreIdle

\* requests.get(unique_url, ...) and raise_for_status give a response
DT_Response ==
    /\ dt_pc = "call"
    /\ dt_fetches' = Append(dt_fetches, [url |-> SplitQuery(dt_url), outcome |-> "ok"])
    /\ \E doc \in DetailDocs : dt_soup' = doc
    /\ dt_pc' = "fetched"
    /\ UNCHANGED <<dt_url, dt_out, ldVars, fxVars, tcVars, v5Vars, v3Vars, v4Vars, rvVars, moreVars>>

\* requests.get(unique_url, ...) or raise_for_status raises
DT_FetchRaises ==
    /\ dt_pc = "call"
    /\ \E f \in FetchFailures :
           dt_fetches' = Append(dt_fetches, [url |-> SplitQuery(dt_url), outcome |-> f])
    /\ dt_pc' = "fetched"
    /\ UNCHANGED <<dt_url, dt_soup, dt_out, ldVars, fxVars, tcVars, v5Vars,
                   v3Vars, v4Vars, rvVars, moreVars>>

\* the rest of the call: the extraction and the gates, or the except clause
DT_Finish ==
    /\ dt_pc = "fetched"
    /\ LET net == NetOf(dt_fetches[Len(dt_fetches)].outcome)
       IN  IF net = "request_exception" /\ OnRequestException(dt_fetches) = "fetch_again"
           THEN dt_pc' = "call" /\ dt_out' = dt_out
           ELSE /\ dt_pc' = "returned"
                /\ dt_out' = get_movie_details(dt_url, net, dt_soup)
    /\ UNCHANGED <<dt_url, dt_fetches, dt_soup, ldVars, fxVars, tcVars, v5Vars,
                   v3Vars, v4Vars, rvVars, moreVars>>

DtNext == DT_Response \/ DT_FetchRaises \/ DT_Finish

SpecDetail == DtInit /\ [][DtNext]_vars

HasIdleWorker_Unbounded(running) == TRUE

HasIdleWorker(running) == Cardinality(running) < MaxWorkers

\* as_completed is exhausted: every future has been yielded to the loop body
Drained_NoWait(futures) == TRUE

Drained(futures) == \A l \in DOMAIN futures : futures[l].state = "collected"

RunningIn(futures) == {l \in DOMAIN futures : futures[l].state = "running"}

\* --------------------------------------------------------------- ver4_Selenium_Based.py scrape_country_films
\* all_movies.append(movie_data): ver4 adds no country column
V4_Row(result) ==
    [title |-> result.title, year |-> result.year, imdb_rating |-> result.imdb_rating,
     url |-> result.url]

\* the body of the as_completed loop for one future
V4_CollectResult_KeepLast(all_movies, result) ==
    IF result.kind = "record" THEN <<V4_Row(result)>> ELSE all_movies

V4_CollectResult(all_movies, result) ==
    IF result.kind = "record" THEN Append(all_movies, V4_Row(result)) ELSE all_movies

\* what driver.page_source holds when the click loop has ended
V4_PageDocs == {Page_ABC, Page_A, Page_NoLinks}

V4Init ==
    /\ v4_pc = "open"
    /\ v4_clicks = 0
    /\ v4_soup = NoSoup
    /\ v4_movie_links = {}
    /\ v4_futures = <<>>
    /\ v4_all_movies = <<>>
    /\ v4_csv = NotWritten
    /\ v4_calls = {}
    /\ LdIdle
    /\ FxIdle
    /\ TcIdle
    /\ V5Idle
    /\ DtIdle
    /\ V3Idle
    /\ RvIdle
    /\ CfgIdle
    /\ MoreIdle

\* webdriver.Chrome(...) or driver.get(url) raises: nothing catches it
V4_OpenRaises ==
    /\ v4_pc = "open"
    /\ v4_pc' = "aborted"
    /\ UNCHANGED <<v4_clicks, v4_soup, v4_movie_links, v4_futures, v4_all_movies,
                   v4_csv, v4_calls, ldVars, fxVars, tcVars, v5Vars, dtVars, v3Vars, rvVars, moreVars>>

\* driver.get(url); time.sleep(2)
V4_Open ==
    /\ v4_pc = "open"
    /\ v4_pc' = "clicking"
    /\ UNCHANGED <<v4_clicks, v4_soup, v4_movie_links, v4_futures, v4_all_movies,
                   v4_csv, v4_calls, ldVars, fxVars, tcVars, v5Vars, dtVars, v3Vars, rvVars, moreVars>>

\* `for i in range(max_clicks)` has a next value after `clicks` passes
ClicksLeft_OneMore(clicks) == clicks < MaxClicks + 1

ClicksLeft(clicks) == clicks < MaxClicks

\* one pass of `for i in range(max_clicks)`: the button is found and clicked
V4_Click ==
    /\ v4_pc = "clicking"
    /\ ClicksLeft(v4_clicks)
    /\ v4_clicks' = v4_clicks + 1
    /\ UNCHANGED <<v4_pc, v4_soup, v4_movie_links, v4_futures, v4_all_movies,
                   v4_csv, v4_calls, ldVars, fxVars, tcVars, v5Vars, dtVars, v3Vars, rvVars, moreVars>>

\* the wait for the button raises: `except Exception: break`; then the page
\* source is parsed and the browser closed
V4_NoButton ==
    /\ v4_pc = "clicking"
    /\ ClicksLeft(v4_clicks)
    /\ \E doc \in V4_PageDocs : v4_soup' = doc
    /\ v4_pc' = "extract"
    /\ UNCHANGED <<v4_clicks, v4_movie_links, v4_futures, v4_all_movies,
                   v4_csv, v4_calls, ldVars, fxVars, tcVars, v5Vars, dtVars, v3Vars, rvVars, moreVars>>

\* range(max_clicks) is exhausted; then the page source is parsed
V4_ClicksDone ==
    /\ v4_pc = "clicking"
    /\ ~ ClicksLeft(v4_clicks)
    /\ \E doc \in V4_PageDocs : v4_soup' = doc
    /\ v4_pc' = "extract"
    /\ UNCHANGED <<v4_clicks, v4_movie_links, v4_futures, v4_all_movies,
                   v4_csv, v4_calls, ldVars, fxVars, tcVars, v5Vars, dtVars, v3Vars, rvVars, moreVars>>

\* movie_links = self.extract_movie_links(soup); `if not movie_links: return None`
V4_ExtractLinks ==
    /\ v4_pc = "extract"
    /\ v4_movie_links' = V4_extract_movie_links(v4_soup).links
    /\ v4_pc' = IF v4_movie_links' = {} THEN "done" ELSE "submit"
    /\ UNCHANGED <<v4_clicks, v4_soup, v4_futures, v4_all_movies,
                   v4_csv, v4_calls, ldVars, fxVars, tcVars, v5Vars, dtVars, v3Vars, rvVars, moreVars>>

\* executor.submit(self.get_movie_details, link) for every link
V4_Submit ==
    /\ v4_pc = "submit"
    /\ v4_futures' = [l \in v4_movie_links |-> Pending]
    /\ v4_pc' = "collect"
    /\ UNCHANGED <<v4_clicks, v4_soup, v4_movie_links, v4_all_movies,
                   v4_csv, v4_calls, ldVars, fxVars, tcVars, v5Vars, dtVars, v3Vars, rvVars, moreVars>>

\* a pool thread takes a queued task
V4_WorkerStart ==
    /\ v4_pc = "collect"
    /\ HasIdleWorker(RunningIn(v4_futures))
    /\ \E l \in DOMAIN v4_futures :
           /\ v4_futures[l].state = "pending"
           /\ v4_futures' = [v4_futures EXCEPT ![l].state = "running"]
    /\ UNCHANGED <<v4_pc, v4_clicks, v4_soup, v4_movie_links, v4_all_movies,
                   v4_csv, v4_calls, ldVars, fxVars, tcVars, v5Vars, dtVars, v3Vars, rvVars, moreVars>>

\* get_movie_details returns or raises in its pool thread
V4_WorkerFinish ==
    /\ v4_pc = "collect"
    /\ \E l \in DOMAIN v4_futures, net \in NetOutcomes, doc \in DetailDocs :
           /\ v4_futures[l].state = "running"
           /\ net # "ok" => doc = CHOOSE d \in DetailDocs : TRUE
           /\ LET r == get_movie_details(l, net, doc)
              IN  /\ v4_futures' = [v4_futures EXCEPT ![l] = [state |-> "done", result |-> r]]
                  /\ v4_calls' = v4_calls \cup {[link |-> l, net |-> net, doc |-> doc, result |-> r]}
    /\ UNCHANGED <<v4_pc, v4_clicks, v4_soup, v4_movie_links, v4_all_movies,
                   v4_csv, ldVars, fxVars, tcVars, v5Vars, dtVars, v3Vars, rvVars, moreVars>>

\* one pass of `for future in as_completed(future_to_url)`
V4_Collect ==
    /\ v4_pc = "collect"
    /\ \E l \in DOMAIN v4_futures :
           /\ v4_futures[l].state = "done"
           /\ v4_all_movies' = V4_CollectResult(v4_all_movies, v4_futures[l].result)
           /\ v4_futures' = [v4_futures EXCEPT ![l].state = "collected"]
    /\ UNCHANGED <<v4_pc, v4_clicks, v4_soup, v4_movie_links,
                   v4_csv, v4_calls, ldVars, fxVars, tcVars, v5Vars, dtVars, v3Vars, rvVars, moreVars>>

\* the `with` block is left; df = pd.DataFrame(all_movies);
\* `if not df.empty: df.to_csv(...)`; return df
V4_Save ==
    /\ v4_pc = "collect"
    /\ Drained(v4_futures)
    /\ v4_csv' = IF v4_all_movies # <<>> THEN v4_all_movies ELSE NotWritten
    /\ v4_pc' = "done"
    /\ UNCHANGED <<v4_clicks, v4_soup, v4_movie_links, v4_futures, v4_all_movies,
                   v4_calls, ldVars, fxVars, tcVars, v5Vars, dtVars, v3Vars, rvVars, moreVars>>

V4Next ==
    \/ V4_OpenRaises
    \/ V4_Open
    \/ V4_Click
    \/ V4_NoButton
    \/ V4_ClicksDone
    \/ V4_ExtractLinks
    \/ V4_Submit
    \/ V4_WorkerStart
    \/ V4_WorkerFinish
    \/ V4_Collect
    \/ V4_Save

SpecV4 == V4Init /\ [][V4Next]_vars

\* --------------------------------------------------------------- ver3.py scrape_country_films
\* listing pages of a ver3 run
Page_AB ==
    { InHeader(TitleHref("1/") \o <<"?", "ref_=li_tt">>),
      InHeader(TitleHref("2/")) }

V3_PageDocs == {Page_A, Page_AB, Page_NoLinks}

UnknownTitle == <<"U", "n", "k", "n", "o", "w", "n", " ", "T", "i", "t", "l", "e">>

\* detail pages as ver3's get_movie_details reads them: the h1 and the rating span
V3_DetailDocs ==
    { [h1 |-> NoElem, rating |-> <<"7", ".", "4">>] }

\* ver3's get_movie_details: no gate on any field, and the url kept as given
V3_get_movie_details(movie_url, net, doc) ==
    IF net = "request_exception" THEN NoneResult
    ELSE IF net = "other_exception" THEN RaisedResult
    ELSE [kind |-> "record",
          title |-> IF doc.h1 = NoElem THEN UnknownTitle ELSE Strip(doc.h1),
          year |-> <<>>,
          imdb_rating |-> TextOrNA(doc.rating),
          url |-> movie_url]

\* the body of the as_completed loop for one future
V3_CollectResult_Reset(all_movies, result) ==
    IF result.kind = "record"
    THEN Append(all_movies, [title |-> result.title, imdb_rating |-> result.imdb_rating,
                             url |-> result.url, country_of_search |-> Country])
    ELSE <<>>

V3_CollectResult(all_movies, result) ==
    IF result.kind = "record"
    THEN Append(all_movies, [title |-> result.title, imdb_rating |-> result.imdb_rating,
                             url |-> result.url, country_of_search |-> Country])
    ELSE all_movies

\* country_code = country_codes.get(country): None for a country without a code
V3_country_code_Fallback(country) ==
    IF country \in DOMAIN country_codes THEN country_codes[country] ELSE Lower[country]

V3_country_code(country) ==
    IF country \in DOMAIN country_codes THEN country_codes[country] ELSE NoCode

V3Init ==
    /\ v3_pc = "start"
    /\ v3_page = 1
    /\ v3_rejects \in BOOLEAN
    /\ v3_soup = NoSoup
    /\ v3_movie_links = {}
    /\ v3_futures = <<>>
    /\ v3_all_movies = <<>>
    /\ v3_csv = NotWritten
    /\ LdIdle
    /\ FxIdle
    /\ TcIdle
    /\ V5Idle
    /\ DtIdle
    /\ V4Idle
    /\ RvIdle
    /\ MoreIdle
    /\ run_country \in Countries

\* country_codes.get(country) gives nothing: return pd.DataFrame()
V3_NoCountryCode ==
    /\ v3_pc = "start"
    /\ V3_country_code(run_country) = NoCode
    /\ v3_pc' = "done"
    /\ UNCHANGED <<v3_page, v3_rejects, v3_soup, v3_movie_links, v3_futures,
                   v3_all_movies, v3_csv, ldVars, fxVars, tcVars, v5Vars, dtVars,
                   v4Vars, rvVars, moreVars>>

\* the country has a code: the page loop is entered
V3_Begin ==
    /\ v3_pc = "start"
    /\ V3_country_code(run_country) # NoCode
    /\ v3_pc' = "fetch"
    /\ UNCHANGED <<v3_page, v3_rejects, v3_soup, v3_movie_links, v3_futures,
                   v3_all_movies, v3_csv, ldVars, fxVars, tcVars, v5Vars, dtVars,
                   v4Vars, rvVars, moreVars>>

\* get_imdb_search_results returns None: `if not soup: break`
V3_FetchFailed ==
    /\ v3_pc = "fetch"
    /\ v3_pc' = "save"
    /\ v3_soup' = NoSoup
    /\ UNCHANGED <<v3_page, v3_rejects, v3_movie_links, v3_futures,
                   v3_all_movies, v3_csv, ldVars, fxVars, tcVars, v5Vars, dtVars,
                   v4Vars, rvVars, moreVars>>

\* get_imdb_search_results returns the parsed page
V3_FetchPage ==
    /\ v3_pc = "fetch"
    /\ \E doc \in V3_PageDocs : v3_soup' = doc
    /\ v3_pc' = "extract"
    /\ UNCHANGED <<v3_page, v3_rejects, v3_movie_links, v3_futures,
                   v3_all_movies, v3_csv, ldVars, fxVars, tcVars, v5Vars, dtVars,
                   v4Vars, rvVars, moreVars>>

\* movie_links = self.extract_movie_links(soup); `if not movie_links: break`;
\* an exception of soup.select leaves scrape_country_films
V3_ExtractLinks ==
    /\ v3_pc = "extract"
    /\ LET out == V3_extract_movie_links(v3_soup, v3_rejects)
       IN  /\ v3_movie_links' = out.links
           /\ v3_pc' = IF out.status = "raised" THEN "aborted"
                       ELSE IF out.links = {} THEN "save"
                       ELSE "submit"
    /\ UNCHANGED <<v3_page, v3_rejects, v3_soup, v3_futures,
                   v3_all_movies, v3_csv, ldVars, fxVars, tcVars, v5Vars, dtVars,
                   v4Vars, rvVars, moreVars>>

\* executor.submit(self.get_movie_details, link) for every link of the page
V3_Submit ==
    /\ v3_pc = "submit"
    /\ v3_futures' = [l \in v3_movie_links |-> Pending]
    /\ v3_pc' = "collect"
    /\ UNCHANGED <<v3_page, v3_rejects, v3_soup, v3_movie_links,
                   v3_all_movies, v3_csv, ldVars, fxVars, tcVars, v5Vars, dtVars,
                   v4Vars, rvVars, moreVars>>

\* a pool thread takes a queued task
V3_WorkerStart ==
    /\ v3_pc = "collect"
    /\ HasIdleWorker(RunningIn(v3_futures))
    /\ \E l \in DOMAIN v3_futures :
           /\ v3_futures[l].state = "pending"
           /\ v3_futures' = [v3_futures EXCEPT ![l].state = "running"]
    /\ UNCHANGED <<v3_pc, v3_page, v3_rejects, v3_soup, v3_movie_links,
                   v3_all_movies, v3_csv, ldVars, fxVars, tcVars, v5Vars, dtVars,
                   v4Vars, rvVars, moreVars>>

\* get_movie_details returns or raises in its pool thread
V3_WorkerFinish ==
    /\ v3_pc = "collect"
    /\ \E l \in DOMAIN v3_futures, net \in NetOutcomes, doc \in V3_DetailDocs :
           /\ v3_futures[l].state = "running"
           /\ net # "ok" => doc = CHOOSE d \in V3_DetailDocs : TRUE
           /\ v3_futures' = [v3_futures EXCEPT
                  ![l] = [state |-> "done", result |-> V3_get_movie_details(l, net, doc)]]
    /\ UNCHANGED <<v3_pc, v3_page, v3_rejects, v3_soup, v3_movie_links,
                   v3_all_movies, v3_csv, ldVars, fxVars, tcVars, v5Vars, dtVars,
                   v4Vars, rvVars, moreVars>>

\* one pass of `for future in as_completed(future_to_url)`
V3_Collect ==
    /\ v3_pc = "collect"
    /\ \E l \in DOMAIN v3_futures :
           /\ v3_futures[l].state = "done"
           /\ v3_all_movies' = V3_CollectResult(v3_all_movies, v3_futures[l].result)
           /\ v3_futures' = [v3_futures EXCEPT ![l].state = "collected"]
    /\ UNCHANGED <<v3_pc, v3_page, v3_rejects, v3_soup, v3_movie_links,
                   v3_csv, ldVars, fxVars, tcVars, v5Vars, dtVars, v4Vars, rvVars, moreVars>>

\* the `with` block is left and the next page is fetched at once
V3_ExitPool_NoPause ==
    /\ v3_pc = "collect"
    /\ Drained(v3_futures)
    /\ IF v3_page < MaxPages
       THEN v3_page' = v3_page + 1 /\ v3_pc' = "fetch"
       ELSE v3_page' = v3_page /\ v3_pc' = "save"
    /\ UNCHANGED <<v3_rejects, v3_soup, v3_movie_links, v3_futures,
                   v3_all_movies, v3_csv, ldVars, fxVars, tcVars, v5Vars, dtVars,
                   v4Vars, rvVars, moreVars>>

\* as_completed is exhausted and the `with` block is left
V3_ExitPool ==
    /\ v3_pc = "collect"
    /\ Drained(v3_futures)
    /\ v3_pc' = "sleep"
    /\ UNCHANGED <<v3_page, v3_rejects, v3_soup, v3_movie_links, v3_futures,
                   v3_all_movies, v3_csv, ldVars, fxVars, tcVars, v5Vars, dtVars,
                   v4Vars, rvVars, moreVars>>

\* time.sleep(2), then the next value of `for page in range(1, max_pages + 1)`
V3_Sleep ==
    /\ v3_pc = "sleep"
    /\ IF v3_page < MaxPages
       THEN v3_page' = v3_page + 1 /\ v3_pc' = "fetch"
       ELSE v3_page' = v3_page /\ v3_pc' = "save"
    /\ UNCHANGED <<v3_rejects, v3_soup, v3_movie_links, v3_futures,
                   v3_all_movies, v3_csv, ldVars, fxVars, tcVars, v5Vars, dtVars,
                   v4Vars, rvVars, moreVars>>

\* df = pd.DataFrame(all_movies); df.to_csv(...); return df
V3_Save ==
    /\ v3_pc = "save"
    /\ v3_csv' = v3_all_movies
    /\ v3_pc' = "done"
    /\ UNCHANGED <<v3_page, v3_rejects, v3_soup, v3_movie_links, v3_futures,
                   v3_all_movies, ldVars, fxVars, tcVars, v5Vars, dtVars,
                   v4Vars, rvVars, moreVars>>

V3Next ==
    \/ V3_NoCountryCode
    \/ V3_Begin
    \/ V3_FetchFailed
    \/ V3_FetchPage
    \/ V3_ExtractLinks
    \/ V3_Submit
    \/ V3_WorkerStart
    \/ V3_WorkerFinish
    \/ V3_Collect
    \/ V3_ExitPool
    \/ V3_Sleep
    \/ V3_Save

SpecV3 == V3Init /\ [][V3Next]_vars

\* --------------------------------------------------------------- a run of any of the four scrapers
RunsInit == TcInit \/ V3Init \/ V4Init \/ V5Init

RunsNext == TcNext \/ V3Next \/ V4Next \/ V5Next

SpecRuns == RunsInit /\ [][RunsNext]_vars

\* --------------------------------------------------------------- runs: claims
V4Succeeded == {c \in v4_calls : c.result.kind = "record"}

V4Rows == {v4_all_movies[i] : i \in 1..Len(v4_all_movies)}

\* C12: at any moment at most max_workers (max_threads) get_movie_details
\* calls are in flight, the tasks submitted are exactly the links handed to the
\* pool (the new links of the page in test_claude.py, the page's links in
\* ver4, the link list in ver5), and each of them is run exactly once.
Thm_C12 ==
    /\ Cardinality(TcRunning) <= MaxWorkers
    /\ Cardinality(RunningIn(v4_futures)) <= MaxWorkers
    /\ Cardinality(V5Running) <= MaxWorkers
    /\ tc_pc = "collect" => DOMAIN tc_futures = tc_new_movie_links
    /\ v4_pc = "collect" => DOMAIN v4_futures = v4_movie_links
    /\ v5_pc \in {"collect", "unwind"} => DOMAIN v5_futures = v5_movie_links
    /\ \A c, d \in tc_calls : (c.link = d.link /\ c.page = d.page) => c = d
    /\ \A c, d \in v4_calls : c.link = d.link => c = d
    /\ \A c, d \in v5_calls : c.link = d.link => c = d
    /\ {c.link : c \in v4_calls} \subseteq v4_movie_links
    /\ {c.link : c \in v5_calls} \subseteq v5_movie_links
    /\ (v4_pc = "done" /\ v4_movie_links # {}) => {c.link : c \in v4_calls} = v4_movie_links
    /\ (v5_pc \in {"save", "done", "aborted"} /\ v5_futures # <<>>) =>
           {c.link : c \in v5_calls} = v5_movie_links
    /\ tc_pc = "sleep" =>
           {c.link : c \in {d \in tc_calls : d.page = tc_page}} = tc_new_movie_links

\* ver4 has every pool thread busy while a submitted task still waits
Wit_C12 ==
    /\ v4_pc = "collect"
    /\ Cardinality(v4_movie_links) > MaxWorkers
    /\ Cardinality(RunningIn(v4_futures)) = MaxWorkers
    /\ \E l \in DOMAIN v4_futures : v4_futures[l].state = "pending"

\* C13: the table is a function of the per-link outcomes alone: once the pool
\* is drained it holds exactly one row per call that returned a record,
\* whatever the order in which the calls finished and were collected; only the
\* order of the rows depends on that order.
Thm_C13 ==
    /\ v4_pc = "done" =>
           /\ Len(v4_all_movies) = Cardinality(V4Succeeded)
           /\ V4Rows = {V4_Row(c.result) : c \in V4Succeeded}
           /\ v4_all_movies # <<>> => v4_csv = v4_all_movies
    /\ v4_pc = "collect" =>
           /\ V4Rows \subseteq {V4_Row(c.result) : c \in V4Succeeded}
           /\ Len(v4_all_movies) = Cardinality(V4Rows)
    /\ tc_pc \in {"sleep", "save", "done"} =>
           /\ Len(tc_all_movies) = Cardinality(TcSucceeded)
           /\ TcRows = {TcRow(c.result) : c \in TcSucceeded}
    /\ tc_pc = "collect" =>
           /\ TcRows \subseteq {TcRow(c.result) : c \in TcSucceeded}
           /\ Len(tc_all_movies) = Cardinality(TcRows)
    /\ tc_pc = "done" => tc_csv = tc_all_movies

\* ver4 has written three rows in the order 3, 1, 2 of their links
Wit_C13 ==
    /\ v4_pc = "done"
    /\ Len(v4_csv) = 3
    /\ v4_csv[1].url = Url("3/")
    /\ v4_csv[2].url = Url("1/")
    /\ v4_csv[3].url = Url("2/")

\* the same three records, written in the order 1, 2, 3
Wit_C13_other_order ==
    /\ v4_pc = "done"
    /\ Len(v4_csv) = 3
    /\ v4_csv[1].url = Url("1/")
    /\ v4_csv[2].url = Url("2/")
    /\ v4_csv[3].url = Url("3/")

\* --------------------------------------------------------------- review_scraper.py process_movies
\* int(c) for a digit character
DigitValue(c) ==
    CASE c = "0" -> 0 [] c = "1" -> 1 [] c = "2" -> 2 [] c = "3" -> 3 [] c = "4" -> 4
      [] c = "5" -> 5 [] c = "6" -> 6 [] c = "7" -> 7 [] c = "8" -> 8 [] c = "9" -> 9

IsDigit(c) == c \in Digits

RECURSIVE ToInt(_)
\* int(num_reviews) for a string of digits
ToInt(s) ==
    IF s = <<>> THEN 0
    ELSE 10 * ToInt(SubSeq(s, 1, Len(s) - 1)) + DigitValue(s[Len(s)])

\* extract_total_reviews: the digits of the element's text, read as one number
extract_total_reviews(soup) ==
    IF soup.total = NoElem THEN 0
    ELSE LET num_reviews == SelectSeq(Strip(soup.total), IsDigit)
         IN  IF num_reviews = <<>> THEN 0 ELSE ToInt(num_reviews)

\* extract_reviews: one review record per article, and the total
extract_reviews(soup, movie_title, movie_url) ==
    [kind |-> "returned",
     reviews |-> [i \in 1..soup.articles |-> [movie_title |-> movie_title, permalink |-> movie_url]],
     total_reviews |-> extract_total_reviews(soup)]

NoReviewPage == [total |-> NoElem, articles |-> 0]

\* scrape_movie_reviews: `if not soup: return [], 0`; `load` is how
\* get_review_page ended: "ok", "failed" (it caught the error and returned
\* None) or "raised" (setup_driver raised before the try)
scrape_movie_reviews(movie_url, movie_title, load, soup) ==
    IF load = "raised" THEN [kind |-> "raised", reviews |-> <<>>, total_reviews |-> 0]
    ELSE IF load = "failed" THEN [kind |-> "returned", reviews |-> <<>>, total_reviews |-> 0]
    ELSE extract_reviews(soup, movie_title, movie_url)

\* review pages: the text of the total-reviews element and the number of articles
ReviewPages ==
    { NoReviewPage,
      [total |-> <<" ", "5", " ", "R">>, articles |-> 1],
      [total |-> <<"1", ",", "2">>, articles |-> 1],
      [total |-> <<"R">>, articles |-> 0] }

LoadOutcomes == {"ok", "failed", "raised"}

MovieTitles == {"X", "Y"}

MovieRows == [title : MovieTitles, url : {Url("1/"), Url("2/")}]

RECURSIVE SeqsUpTo(_, _)
\* the sequences over S of length 0..n
SeqsUpTo(S, n) ==
    IF n = 0 THEN {<<>>}
    ELSE LET shorter == SeqsUpTo(S, n - 1)
         IN  shorter \cup {Append(q, x) : q \in shorter, x \in S}

\* the result slot of a future that has not finished
NoResultYet == [kind |-> "not finished", reviews |-> <<>>, total_reviews |-> 0]

\* total_reviews_dict[movie_title] = total_reviews
DictSet(dict, key, value) ==
    [k \in DOMAIN dict \cup {key} |-> IF k = key THEN value ELSE dict[k]]

\* df_movies['title'].map(total_reviews_dict).fillna(0).astype(int)
MapTotals(df_movies, dict) ==
    [i \in DOMAIN df_movies |->
        [title |-> df_movies[i].title, url |-> df_movies[i].url,
         total_reviews |-> IF df_movies[i].title \in DOMAIN dict
                           THEN dict[df_movies[i].title] ELSE 0]]

RvInit ==
    /\ rv_pc = "submit"
    /\ rv_df_movies \in SeqsUpTo(MovieRows, MaxMovies)
    /\ rv_futures = <<>>
    /\ rv_all_reviews = <<>>
    /\ rv_total_reviews_dict = <<>>
    /\ rv_movies_file = NotWritten
    /\ rv_reviews_file = NotWritten
    /\ LdIdle
    /\ FxIdle
    /\ TcIdle
    /\ V5Idle
    /\ DtIdle
    /\ V3Idle
    /\ V4Idle
    /\ CfgIdle
    /\ MoreIdle

\* executor.submit(self.scrape_movie_reviews, row['url'], row['title']) for every row
RV_Submit ==
    /\ rv_pc = "submit"
    /\ rv_futures' = [i \in DOMAIN rv_df_movies |-> [state |-> "pending", result |-> NoResultYet]]
    /\ rv_pc' = "collect"
    /\ UNCHANGED <<rv_df_movies, rv_all_reviews, rv_total_reviews_dict, rv_movies_file,
                   rv_reviews_file, ldVars, fxVars, tcVars, v5Vars, dtVars, v3Vars, v4Vars, moreVars>>

\* a pool thread takes a queued task
RV_WorkerStart ==
    /\ rv_pc = "collect"
    /\ HasIdleWorker(RunningIn(rv_futures))
    /\ \E i \in DOMAIN rv_futures :
           /\ rv_futures[i].state = "pending"
           /\ rv_futures' = [rv_futures EXCEPT ![i].state = "running"]
    /\ UNCHANGED <<rv_pc, rv_df_movies, rv_all_reviews, rv_total_reviews_dict, rv_movies_file,
                   rv_reviews_file, ldVars, fxVars, tcVars, v5Vars, dtVars, v3Vars, v4Vars, moreVars>>

\* scrape_movie_reviews returns or raises in its pool thread
RV_WorkerFinish ==
    /\ rv_pc = "collect"
    /\ \E i \in DOMAIN rv_futures, load \in LoadOutcomes, soup \in ReviewPages :
           /\ rv_futures[i].state = "running"
           /\ load # "ok" => soup = NoReviewPage
           /\ rv_futures' = [rv_futures EXCEPT ![i] =
                  [state |-> "done",
                   result |-> scrape_movie_reviews(rv_df_movies[i].url, rv_df_movies[i].title,
                                                   load, soup)]]
    /\ UNCHANGED <<rv_pc, rv_df_movies, rv_all_reviews, rv_total_reviews_dict, rv_movies_file,
                   rv_reviews_file, ldVars, fxVars, tcVars, v5Vars, dtVars, v3Vars, v4Vars, moreVars>>

\* one pass of `for future in as_completed(future_to_movie)`
RV_Collect ==
    /\ rv_pc = "collect"
    /\ \E i \in DOMAIN rv_futures :
           /\ rv_futures[i].state = "done"
           /\ rv_futures' = [rv_futures EXCEPT ![i].state = "collected"]
           /\ IF rv_futures[i].result.kind = "raised"
              THEN UNCHANGED <<rv_all_reviews, rv_total_reviews_dict>>
              ELSE /\ rv_all_reviews' = rv_all_reviews \o rv_futures[i].result.reviews
                   /\ rv_total_reviews_dict' =
                          DictSet(rv_total_reviews_dict, rv_df_movies[i].title,
                                  rv_futures[i].result.total_reviews)
    /\ UNCHANGED <<rv_pc, rv_df_movies, rv_movies_file, rv_reviews_file,
                   ldVars, fxVars, tcVars, v5Vars, dtVars, v3Vars, v4Vars, moreVars>>

\* the `with` block is left; the total_reviews column is mapped in and both
\* files are written (the reviews file only when there are reviews)
RV_Write ==
    /\ rv_pc = "collect"
    /\ Drained(rv_futures)
    /\ rv_movies_file' = MapTotals(rv_df_movies, rv_total_reviews_dict)
    /\ rv_reviews_file' = IF rv_all_reviews # <<>> THEN rv_all_reviews ELSE NotWritten
    /\ rv_pc' = "done"
    /\ UNCHANGED <<rv_df_movies, rv_futures, rv_all_reviews, rv_total_reviews_dict,
                   ldVars, fxVars, tcVars, v5Vars, dtVars, v3Vars, v4Vars, moreVars>>

RvNext == RV_Submit \/ RV_WorkerStart \/ RV_WorkerFinish \/ RV_Collect \/ RV_Write

SpecReviews == RvInit /\ [][RvNext]_vars

\* --------------------------------------------------------------- process_movies: claims
\* C14: the total_reviews column is written only once every review fetch has
\* been collected, and each film row gets the count extracted from its own
\* review page, whatever the order in which the fetches complete, also when two
\* rows carry the same title.
CE_C14 ==
    rv_pc = "done" =>
        /\ Drained(rv_futures)
        /\ \A i \in DOMAIN rv_df_movies :
               rv_futures[i].result.kind = "returned" =>
                   rv_movies_file[i].total_reviews = rv_futures[i].result.total_reviews

\* with pairwise different titles each row does get its own count, and a row
\* whose worker raised gets 0
Aux_C14_distinct_titles ==
    (rv_pc = "done" /\ \A i, j \in DOMAIN rv_df_movies :
                           rv_df_movies[i].title = rv_df_movies[j].title => i = j) =>
        \A i \in DOMAIN rv_df_movies :
            rv_movies_file[i].total_reviews =
                IF rv_futures[i].result.kind = "returned"
                THEN rv_futures[i].result.total_reviews ELSE 0

\* the column is never written while a fetch is pending, running or uncollected
Aux_C14_after_all ==
    rv_movies_file # NotWritten => (rv_pc = "done" /\ Drained(rv_futures))

\* --------------------------------------------------------------- scrape_country_films: order of the page steps
\* tasks of the current pool that the orchestrator has not been through
TcInFlight == {l \in DOMAIN tc_futures : tc_futures[l].state # "collected"}

C15_State ==
    /\ tc_pc = "fetch" =>
           /\ Len(tc_trace) = tc_page - 1
           /\ {SplitQuery(l) : l \in TcSeen(tc_page - 1)} \subseteq tc_processed_urls
           /\ TcInFlight = {}
    /\ tc_pc \in {"extract", "dedup"} => TcInFlight = {}
    /\ tc_pc \in {"submit", "collect", "sleep"} =>
           /\ Len(tc_trace) = tc_page
           /\ {SplitQuery(l) : l \in tc_trace[tc_page].links} \subseteq tc_processed_urls

\* a step that changes processed_urls
C15_Update ==
    tc_processed_urls' # tc_processed_urls =>
        /\ tc_pc = "dedup" /\ tc_pc' = "submit"
        /\ Len(tc_trace) = tc_page
        /\ tc_trace[tc_page].links = tc_movie_links
        /\ tc_processed_urls' = tc_processed_urls \cup {SplitQuery(l) : l \in tc_movie_links}
        /\ TcInFlight = {}

\* a step that fetches a listing page or runs the link discoverer
C15_Listing ==
    (tc_soup' # tc_soup \/ tc_trace' # tc_trace \/ tc_page' # tc_page) =>
        /\ tc_pc \in {"fetch", "extract", "sleep"}
        /\ TcInFlight = {}
        /\ tc_processed_urls' = tc_processed_urls

\* C15: processed_urls is updated with the links of page p after
\* extract_movie_links has returned for page p and before page p+1 is fetched;
\* listing fetches, discoverer calls and updates happen one at a time and never
\* while a detail fetch of the pool is in flight.
Thm_C15 ==
    /\ [] C15_State
    /\ [][C15_Update /\ C15_Listing]_vars

\* page 2 is about to be fetched after page 1's pool ran with the pool full
Wit_C15 ==
    /\ tc_pc = "fetch"
    /\ tc_page = 2
    /\ Cardinality(tc_processed_urls) = 3
    /\ Cardinality(tc_calls) = 3

\* --------------------------------------------------------------- runs: the end of pagination
V3InFlight == {l \in DOMAIN v3_futures : v3_futures[l].state # "collected"}

C16_State ==
    /\ tc_pc \in {"save", "done"} => TcInFlight = {}
    /\ v3_pc \in {"save", "done", "aborted"} => V3InFlight = {}
    /\ tc_csv # NotWritten => (tc_pc = "done" /\ TcInFlight = {} /\ tc_csv = tc_all_movies)
    /\ v3_csv # NotWritten => (v3_pc = "done" /\ V3InFlight = {} /\ v3_csv = v3_all_movies)

\* a step taken after the page loop has been left
C16_Stopped ==
    /\ tc_pc \in {"save", "done"} =>
           (tc_futures' = tc_futures /\ tc_calls' = tc_calls /\ tc_all_movies' = tc_all_movies)
    /\ v3_pc \in {"save", "done", "aborted"} =>
           (v3_futures' = v3_futures /\ v3_all_movies' = v3_all_movies)

\* C16: once the page loop has been left (max_pages reached, no links, or the
\* listing fetch failed) no detail fetch is submitted or started any more, and
\* every detail fetch submitted before has finished and been collected when the
\* table is built and written: no task is in flight at that point.
Thm_C16 ==
    /\ [] C16_State
    /\ [][C16_Stopped]_vars

\* ver3 has written the table after the fetch of page 2 failed, with both
\* tasks of page 1 collected
Wit_C16 ==
    /\ v3_pc = "done"
    /\ v3_page = 2
    /\ v3_soup = NoSoup
    /\ Cardinality(DOMAIN v3_futures) = 2
    /\ V3InFlight = {}
    /\ Len(v3_csv) = 2

\* p is a prefix of q
IsPrefix(p, q) == Len(p) <= Len(q) /\ SubSeq(q, 1, Len(p)) = p

C17_State ==
    /\ tc_pc = "done" =>
           /\ tc_csv = tc_all_movies
           /\ \A c \in TcSucceeded : TcRow(c.result) \in TcRows
    /\ v3_pc = "done" =>
           \/ v3_csv = v3_all_movies
           \/ v3_csv = NotWritten /\ v3_all_movies = <<>> /\ v3_soup = NoSoup /\ v3_page = 1
    /\ tc_pc \in {"fetch", "extract", "dedup", "submit"} =>
           \A c \in tc_calls : c.result.kind = "record" => TcRow(c.result) \in TcRows

\* C17: all_movies only grows: each step leaves the rows already appended in
\* place, so when the page loop is left early on a page after the first (the
\* listing fetch failed or the page had no links) the table written and
\* returned still holds every record of the earlier pages.
Thm_C17 ==
    /\ [] C17_State
    /\ [][IsPrefix(tc_all_movies, tc_all_movies') /\ IsPrefix(v3_all_movies, v3_all_movies')]_vars

\* ver3 has written the two records of page 1 after page 2 gave no links
Wit_C17 ==
    /\ v3_pc = "done"
    /\ v3_page = 2
    /\ v3_soup = Page_NoLinks
    /\ Len(v3_csv) = 2
    /\ v3_csv = v3_all_movies

\* --------------------------------------------------------------- who writes the shared tables
\* a step of a ver5 pool thread: its get_movie_details call ends
V5_WorkerStep ==
    \E l \in DOMAIN v5_futures :
        v5_futures[l] = "running" /\ v5_futures'[l] \in {"returned", "raised"}

\* C18 as stated: the table is written only by the orchestrator: no step of a
\* worker task changes it.
CE_C18 == [][V5_WorkerStep => v5_movie_details' = v5_movie_details]_vars

C18_State ==
    Len(v5_movie_details) =
        Cardinality({l \in DOMAIN v5_futures : v5_futures[l] \in {"returned", "collected"}})

C18_Step ==
    /\ IsPrefix(v5_movie_details, v5_movie_details')
    /\ v5_movie_details' # v5_movie_details =>
           /\ V5_WorkerStep
           /\ Len(v5_movie_details') = Len(v5_movie_details) + 1
           /\ Cardinality({l \in DOMAIN v5_futures : v5_futures'[l] # v5_futures[l]}) = 1
    /\ V5_WorkerStep =>
           (v5_movie_links' = v5_movie_links /\ v5_csv' = v5_csv /\ v5_pc' = v5_pc)
    /\ v5_movie_links' # v5_movie_links => v5_pc = "links"

\* C18 amended: in ver5 the table self.movie_details is written by the worker
\* tasks and never by the orchestrator: each get_movie_details call that runs
\* to its end appends its own record, one row per call and one call per step,
\* and no row already appended is changed or removed; a worker writes nothing
\* else that is shared, and the link set is written by the orchestrator alone.
Thm_C18 ==
    /\ [] C18_State
    /\ [][C18_Step]_vars

\* two workers have appended their records while a third task is running
Wit_C18 ==
    /\ v5_pc = "collect"
    /\ Len(v5_movie_details) = 2
    /\ V5Running # {}

\* a step of a pool thread of test_claude.py, ver3 or ver4
PoolWorkerStep(futures, futures_next) ==
    \E l \in DOMAIN futures :
        futures[l].state = "running" /\ futures_next[l].state = "done"

\* in test_claude.py, ver3 and ver4 no worker step writes a table or the link
\* set: the orchestrator's loop does
Aux_C18_others ==
    [][/\ PoolWorkerStep(tc_futures, tc_futures') =>
              (tc_all_movies' = tc_all_movies /\ tc_processed_urls' = tc_processed_urls)
       /\ PoolWorkerStep(v3_futures, v3_futures') => v3_all_movies' = v3_all_movies
       /\ PoolWorkerStep(v4_futures, v4_futures') => v4_all_movies' = v4_all_movies]_vars

\* --------------------------------------------------------------- ver3: rows of the table
\* C19: in ver3 no url appears in more than one row of the table that
\* scrape_country_films writes, whatever the listing pages hold, overlapping
\* pages included.
CE_C19 ==
    (v3_pc = "done" /\ v3_csv # NotWritten) =>
        \A i, j \in 1..Len(v3_csv) : v3_csv[i].url = v3_csv[j].url => i = j

\* the rows that come from one listing page do have pairwise different urls
Aux_C19_one_page ==
    (v3_pc \in {"collect", "sleep"} /\ v3_page = 1) =>
        \A i, j \in 1..Len(v3_all_movies) :
            v3_all_movies[i].url = v3_all_movies[j].url => i = j

\* C19 read over films instead of url strings: no film has two rows among the
\* rows of one listing page (this does not hold either: the same film under
\* two query strings gives two rows)
CE_C19_same_film ==
    (v3_pc \in {"collect", "sleep"} /\ v3_page = 1) =>
        \A i, j \in 1..Len(v3_all_movies) :
            SplitQuery(v3_all_movies[i].url) = SplitQuery(v3_all_movies[j].url) => i = j

\* --------------------------------------------------------------- runs: termination
\* a run of one of the browser-driven scrapers, ver4 or ver5
SeleniumInit == V4Init \/ V5Init

SeleniumNext == V4Next \/ V5Next

\* every step that is enabled is eventually taken: each page load, wait and
\* task returns or fails in finite time
FairSelenium == SeleniumInit /\ [][SeleniumNext]_vars /\ WF_vars(SeleniumNext)

RunsEnded ==
    \/ tc_pc = "done"
    \/ v3_pc \in {"done", "aborted"}
    \/ v4_pc \in {"done", "aborted"}
    \/ v5_pc \in {"done", "aborted"}

\* listing pages fetched so far by test_claude.py
TcFetches == Len(tc_trace) + (IF tc_pc = "extract" THEN 1 ELSE 0)

C20_State ==
    /\ tc_page <= MaxPages
    /\ TcFetches <= MaxPages
    /\ tc_pc \in {"extract", "dedup", "submit", "collect", "sleep"} => TcFetches = tc_page
    /\ v3_page <= MaxPages
    /\ v4_clicks <= MaxClicks
    /\ v5_pc \notin {"idle", "links"} => v5_movie_links \subseteq
           UNION {UNION {V5_page_links(doc).links : doc \in V5_Pages}}

Wit_C20_pages ==
    /\ tc_pc = "done"
    /\ tc_page = MaxPages
    /\ Len(tc_trace) = MaxPages
    /\ \A p \in 1..MaxPages : tc_trace[p].status = "ok"

\* the page loops of test_claude.py and ver3 under SpecRuns: at most max_pages
\* fetches, the page index never above max_pages
Aux_C20_pages ==
    /\ tc_page <= MaxPages
    /\ TcFetches <= MaxPages
    /\ v3_page <= MaxPages

\* work a pool still has to do: a queued task needs three steps (start,
\* finish, collect), a running one two, a finished one one
WorkLeft(futures) ==
    3 * Cardinality({l \in DOMAIN futures : futures[l].state = "pending"})
    + 2 * Cardinality({l \in DOMAIN futures : futures[l].state = "running"})
    + Cardinality({l \in DOMAIN futures : futures[l].state = "done"})

\* steps left in one pass of the page loop, by position
PhaseRank(pc) ==
    CASE pc = "start" -> 8
      [] pc = "fetch" -> 7
      [] pc = "extract" -> 6
      [] pc = "dedup" -> 5
      [] pc = "submit" -> 4
      [] pc = "collect" -> 3
      [] pc = "sleep" -> 2
      [] pc = "save" -> 1
      [] OTHER -> 0

\* a bound on the steps a run can still take: pages left, then position in
\* the pass, then pool work
TcMeasure == (MaxPages - tc_page) * 1000 + PhaseRank(tc_pc) * 100 + WorkLeft(tc_futures)

V3Measure == (MaxPages - v3_page) * 1000 + PhaseRank(v3_pc) * 100 + WorkLeft(v3_futures)

\* every step of test_claude.py and of ver3 lowers the run's measure, which is
\* never negative: no run takes infinitely many steps
Aux_C20_decreases ==
    /\ [] (TcMeasure >= 0 /\ V3Measure >= 0)
    /\ [][/\ tcVars' # tcVars => TcMeasure' < TcMeasure
          /\ v3Vars' # v3Vars => V3Measure' < V3Measure]_vars

\* a run that has not ended always has a step to take
Aux_C20_not_stuck ==
    /\ tc_pc \notin {"idle", "done"} => ENABLED TcNext
    /\ v3_pc \notin {"idle", "done", "aborted"} => ENABLED V3Next

\* --------------------------------------------------------------- listing failure: claims
\* ver5's run was left by an exception of get_movie_links: no task was ever
\* submitted and no table was written
V5ListingAbort ==
    /\ v5_pc = "aborted"
    /\ v5_futures = <<>>
    /\ v5_movie_links = {}
    /\ v5_csv = NotWritten

\* C21: a listing page that fails to load or yields no links only ends the
\* pagination: get_movie_links of ver5 does not raise, and the run goes on to
\* the detail phase and to the table.
CE_C21 == ~ V5ListingAbort

\* the same for test_claude.py: after a failed fetch or a page without links
\* the next step is the write, and the table written holds every row
\* accumulated from the earlier pages
Aux_C21_test_claude ==
    /\ (tc_trace # <<>> /\ tc_trace[Len(tc_trace)].status \in {"failed", "nolinks"}) =>
           /\ tc_pc \in {"save", "done"}
           /\ tc_futures = <<>> \/ \A l \in DOMAIN tc_futures : tc_futures[l].state = "collected"
    /\ tc_pc = "done" => tc_csv = tc_all_movies

\* test_claude.py wrote rows of page 1 after page 2 failed to load
Wit_C21_test_claude ==
    /\ tc_pc = "done"
    /\ Len(tc_trace) = 2
    /\ tc_trace[2].status = "failed"
    /\ Len(tc_csv) >= 1
    /\ tc_csv # NotWritten

\* --------------------------------------------------------------- pacing: claims
\* time.sleep(2) is reached only with every task of the page through the
\* as_completed loop
C22_State ==
    /\ tc_pc = "sleep" => TcInFlight = {}
    /\ v3_pc = "sleep" => V3InFlight = {}

\* the fetch of a further listing page is entered only by the step that
\* sleeps, and no step of the pool phase is a sleep
C22_Step ==
    /\ (tc_pc' = "fetch" /\ tc_pc # "fetch") =>
           tc_pc = "sleep" /\ tc_page' = tc_page + 1 /\ tc_futures' = tc_futures
    /\ (v3_pc' = "fetch" /\ v3_pc \notin {"fetch", "start"}) =>
           v3_pc = "sleep" /\ v3_page' = v3_page + 1 /\ v3_futures' = v3_futures
    /\ tc_futures' # tc_futures => tc_pc \in {"submit", "collect"} /\ tc_pc' = "collect"
    /\ v3_futures' # v3_futures => v3_pc \in {"submit", "collect"} /\ v3_pc' = "collect"

\* ver5's get_movie_links loads its listing pages back to back: after a
\* driver.get comes the wait for the first anchor, and after that the next
\* driver.get or driver.quit; nothing else happens in between
C22_Ver5 ==
    \A i \in DOMAIN v5_trace :
        /\ v5_trace[i] \in {"get", "wait", "quit"}
        /\ v5_trace[i] = "get" =>
               /\ i + 2 <= Len(v5_trace)
               /\ v5_trace[i + 1] = "wait"
               /\ v5_trace[i + 2] \in {"get", "quit"}

Wit_C22_ver5 ==
    /\ v5_pc = "collect"
    /\ Len(SelectSeq(v5_trace, LAMBDA e : e = "get")) >= 2

\* --------------------------------------------------------------- process_movies: failed fetches
\* the film of row i got nothing from its review page: its worker raised, or
\* the page failed to load or showed no count
NoCountFor(i) ==
    \/ rv_futures[i].result.kind = "raised"
    \/ rv_futures[i].result.total_reviews = 0

\* C30: process_movies writes exactly the input film rows, each with an
\* integer total_reviews, whichever fetches fail: a film whose review page
\* failed to load or whose worker raised gets total_reviews 0, and the reviews
\* collected for the other films are all in the reviews table.
CE_C30 ==
    rv_pc = "done" =>
        /\ Len(rv_movies_file) = Len(rv_df_movies)
        /\ \A i \in DOMAIN rv_df_movies :
               /\ rv_movies_file[i].title = rv_df_movies[i].title
               /\ rv_movies_file[i].url = rv_df_movies[i].url
               /\ rv_movies_file[i].total_reviews \in Nat
               /\ NoCountFor(i) => rv_movies_file[i].total_reviews = 0
        /\ \A i \in DOMAIN rv_df_movies :
               \A k \in DOMAIN rv_futures[i].result.reviews :
                   \E n \in DOMAIN rv_all_reviews :
                       rv_all_reviews[n] = rv_futures[i].result.reviews[k]

\* the part of C30 that does hold: the rows written are the input rows, none
\* dropped or added, each with a natural number as total_reviews
Aux_C30_rows ==
    rv_pc = "done" =>
        /\ Len(rv_movies_file) = Len(rv_df_movies)
        /\ \A i \in DOMAIN rv_df_movies :
               /\ rv_movies_file[i].title = rv_df_movies[i].title
               /\ rv_movies_file[i].url = rv_df_movies[i].url
               /\ rv_movies_file[i].total_reviews \in Nat

\* every review a worker returned is in all_reviews, and the reviews file
\* holds all_reviews when there is any
Aux_C30_reviews_kept ==
    rv_pc = "done" =>
        /\ \A i \in DOMAIN rv_df_movies :
               rv_futures[i].result.kind = "returned" =>
                   \A k \in DOMAIN rv_futures[i].result.reviews :
                       \E n \in DOMAIN rv_all_reviews :
                           rv_all_reviews[n] = rv_futures[i].result.reviews[k]
        /\ rv_all_reviews # <<>> => rv_reviews_file = rv_all_reviews

\* with pairwise different titles a film that got nothing has total_reviews 0
Aux_C30_distinct_titles ==
    (/\ rv_pc = "done"
     /\ \A i, j \in DOMAIN rv_df_movies : rv_df_movies[i].title = rv_df_movies[j].title => i = j)
        => \A i \in DOMAIN rv_df_movies : NoCountFor(i) => rv_movies_file[i].total_reviews = 0

\* --------------------------------------------------------------- extract_movie_links, step by step
\* anchors of the listing documents the calls are given
DcAnchors ==
    [href : { <<"/title/", "tt", "1/">>,
              <<"/title/", "tt", "1/", "?", "ref_=li_tt">>,
              <<"/title/", "tt", "2/">>,
              <<"/name/", "nm", "1/">> },
     place : {"sc", "h3", "plain"}]

DcDocs == SubsetsUpTo(DcAnchors, MaxAnchors)

\* link_selectors of the variant
DcSelectors == IF dc_variant = "tc" THEN TC_link_selectors ELSE V4_link_selectors

\* a movie_links that still holds what an earlier call left in it
DC_new_set_Kept(left_over) == left_over

\* movie_links = set()
DC_new_set(left_over) == {}

DcInit ==
    /\ dc_variant \in {"tc", "v4"}
    /\ dc_pc = "first"
    /\ dc_doc = {}
    /\ dc_i = 0
    /\ dc_todo = {}
    /\ dc_movie_links = {}
    /\ dc_returned = <<>>
    /\ ScrapeIdle
    /\ ClIdle
    /\ R2Idle

\* extract_movie_links(soup) is called, a first and a second time
DC_Call ==
    /\ dc_pc \in {"first", "again"}
    /\ \E doc \in DcDocs : dc_doc' = doc
    /\ dc_movie_links' = DC_new_set(dc_movie_links)
    /\ dc_i' = 1
    /\ dc_todo' = {}
    /\ dc_pc' = "select"
    /\ UNCHANGED <<dc_variant, dc_returned, scrapeVars, clVars, r2Vars>>

\* the next selector: movie_title_links = soup.select(selector), skipped when
\* it matches nothing; the end of link_selectors ends the loop
DC_Select ==
    /\ dc_pc = "select"
    /\ IF dc_i > Len(DcSelectors)
       THEN /\ dc_pc' = "return"
            /\ UNCHANGED <<dc_i, dc_todo>>
       ELSE LET movie_title_links == Select(dc_doc, DcSelectors[dc_i])
            IN  IF movie_title_links = {}
                THEN /\ dc_i' = dc_i + 1
                     /\ UNCHANGED <<dc_pc, dc_todo>>
                ELSE /\ dc_todo' = movie_title_links
                     /\ dc_pc' = "links"
                     /\ UNCHANGED dc_i
    /\ UNCHANGED <<dc_variant, dc_doc, dc_movie_links, dc_returned, scrapeVars, clVars, r2Vars>>

\* one pass of `for link in movie_title_links`, the elements taken in any order
DC_Link ==
    /\ dc_pc = "links"
    /\ \E link \in dc_todo :
           /\ dc_movie_links' =
                  IF Usable(link)
                  THEN dc_movie_links \cup {FullUrl(SplitQuery(GetHref(link)))}
                  ELSE dc_movie_links
           /\ dc_todo' = dc_todo \ {link}
    /\ UNCHANGED <<dc_variant, dc_pc, dc_doc, dc_i, dc_returned, scrapeVars, clVars, r2Vars>>

\* the inner loop has ended: `if movie_links: break`, else the next selector
DC_EndLinks ==
    /\ dc_pc = "links"
    /\ dc_todo = {}
    /\ IF dc_movie_links # {}
       THEN dc_pc' = "return" /\ UNCHANGED dc_i
       ELSE dc_pc' = "select" /\ dc_i' = dc_i + 1
    /\ UNCHANGED <<dc_variant, dc_doc, dc_todo, dc_movie_links, dc_returned,
                   scrapeVars, clVars, r2Vars>>

\* return list(movie_links)
DC_Return ==
    /\ dc_pc = "return"
    /\ dc_returned' = Append(dc_returned, [doc |-> dc_doc, links |-> dc_movie_links])
    /\ dc_pc' = IF dc_returned = <<>> THEN "again" ELSE "done"
    /\ UNCHANGED <<dc_variant, dc_doc, dc_i, dc_todo, dc_movie_links, scrapeVars, clVars, r2Vars>>

DcNext ==
    \/ DC_Call
    \/ DC_Select
    \/ DC_Link
    \/ DC_EndLinks
    \/ DC_Return

SpecDiscover == DcInit /\ [][DcNext]_vars

\* --------------------------------------------------------------- extract_movie_links: claims
\* what the discoverer of the variant gives for a document, as a function
DcExtract(doc) ==
    IF dc_variant = "tc" THEN TC_extract_movie_links(doc).links
    ELSE V4_extract_movie_links(doc).links

\* C24: what extract_movie_links returns depends on the document alone: every
\* call returns the set the document determines, whatever was called before
\* and in whatever order the matched elements are visited, and two calls on
\* the same document return the same set.
Thm_C24 ==
    /\ \A k \in DOMAIN dc_returned :
           dc_returned[k].links = DcExtract(dc_returned[k].doc)
    /\ \A k, n \in DOMAIN dc_returned :
           dc_returned[k].doc = dc_returned[n].doc =>
               dc_returned[k].links = dc_returned[n].links

\* the same document was given twice and both calls returned its two links
Wit_C24 ==
    /\ dc_pc = "done"
    /\ dc_returned[1].doc = dc_returned[2].doc
    /\ Cardinality(dc_returned[2].links) = 2
    /\ dc_returned[1].links = dc_returned[2].links

\* a second call on another document returned that document's links only
Wit_C24_other_doc ==
    /\ dc_pc = "done"
    /\ dc_returned[1].links # {}
    /\ dc_returned[2].links # {}
    /\ dc_returned[1].links \cap dc_returned[2].links = {}

\* --------------------------------------------------------------- review_classifier.py
\* rows of the review table a film can have
MaxReviews == 2

\* stop=stop_after_attempt(3)
StopAfterAttempt == 3

\* required_files of main, in the order of the check
required_files ==
    << "tables/kazakhstan_films.xlsx", "tables/kazakhstan_reviews.xlsx",
       "tables/south_korea_films.xlsx", "tables/south_korea_reviews.xlsx" >>

\* a cell pandas reads as missing: an empty cell, or one of its NA strings
\* such as the 'N/A' that review_scraper.py writes for a field it did not find
NaN == <<"<NaN>">>

\* str.lower(), on the letters the review texts use
LowerChar(c) ==
    CASE c = "N" -> "n"
      [] c = "A" -> "a"
      [] c = "G" -> "g"
      [] OTHER -> c

LowerText(text) == [k \in DOMAIN text |-> LowerChar(text[k])]

\* pd.isna(content) or content.strip().lower() == 'n/a'
IsEmptyReview(content) ==
    \/ content = NaN
    \/ LowerText(Strip(content)) = <<"n", "/", "a">>

\* what client.generate does for one prompt: it raises, or it answers with
\* text that ReviewAnalysis.model_validate_json rejects or accepts
Replies ==
    { [kind |-> "error", strengths |-> <<>>, weaknesses |-> <<>>],
      [kind |-> "invalid", strengths |-> <<>>, weaknesses |-> <<>>],
      [kind |-> "valid", strengths |-> <<"acting">>, weaknesses |-> <<"plot", "pace">>] }

\* one attempt of process_review(title, content): title[:50] raises TypeError
\* on a missing title before anything else; an empty review returns without a
\* call; an exception of client.generate is logged and raised again; a reply
\* that does not validate returns empty lists
process_review(title, content, reply) ==
    IF title = NaN
    THEN [kind |-> "raised", strengths |-> <<>>, weaknesses |-> <<>>, called |-> FALSE]
    ELSE IF IsEmptyReview(content)
    THEN [kind |-> "returned", strengths |-> <<>>, weaknesses |-> <<>>, called |-> FALSE]
    ELSE IF reply.kind = "error"
    THEN [kind |-> "raised", strengths |-> <<>>, weaknesses |-> <<>>, called |-> TRUE]
    ELSE IF reply.kind = "invalid"
    THEN [kind |-> "returned", strengths |-> <<>>, weaknesses |-> <<>>, called |-> TRUE]
    ELSE [kind |-> "returned", strengths |-> reply.strengths,
          weaknesses |-> reply.weaknesses, called |-> TRUE]

\* tenacity gives up once this many attempts have failed
GivesUp_Never(attempt) == FALSE

GivesUp(attempt) == attempt >= StopAfterAttempt

RECURSIVE JsonItems(_)
JsonItems(list) ==
    IF list = <<>> THEN <<>>
    ELSE IF Len(list) = 1 THEN <<"\"", list[1], "\"">>
    ELSE <<"\"", list[1], "\"", ", ">> \o JsonItems(Tail(list))

\* json.dumps(list of str)
JsonDumps(list) == <<"[">> \o JsonItems(list) \o <<"]">>

\* None in a row
None == <<"<None>">>

\* the row appended for a review that process_review returned for
ReviewRow(movie_title, review, s, w) ==
    [movie_title |-> movie_title,
     original_review_title |-> review.review_title,
     original_review_content |-> review.review_content,
     strengths |-> JsonDumps(s),
     weaknesses |-> JsonDumps(w)]

\* the row appended for a film without reviews
PlaceholderRow(movie_title) ==
    [movie_title |-> movie_title,
     original_review_title |-> None,
     original_review_content |-> None,
     strengths |-> JsonDumps(<<>>),
     weaknesses |-> JsonDumps(<<>>)]

\* review_groups.get_group(movie_title): the rows of the film, in table order
ReviewGroup(reviews, movie_title) ==
    SelectSeq([k \in DOMAIN reviews |-> k], LAMBDA k : reviews[k].movie_title = movie_title)

FilmTitles == {"A", "B"}

ReviewTexts == { <<"G", "o", "o", "d">>, <<" ", "N", "/", "A", " ">>, NaN }

ReviewRows ==
    [movie_title : FilmTitles, review_title : {<<"T">>, NaN}, review_content : ReviewTexts]

\* the tables read_excel gives: any small tables of distinct films for the
\* first country, one film without reviews for the second
FilmTables(country) ==
    IF country = 1
    THEN {films \in SeqsUpTo(FilmTitles, Cardinality(FilmTitles)) :
              \A j, k \in DOMAIN films : films[j] = films[k] => j = k}
    ELSE {<<"A">>}

ReviewTables(country) ==
    IF country = 1 THEN SeqsUpTo(ReviewRows, MaxReviews) ELSE {<<>>}

ClInit ==
    /\ cl_pc = "check"
    /\ cl_present \in SUBSET {required_files[k] : k \in DOMAIN required_files}
    /\ cl_country = 0
    /\ cl_films = <<>>
    /\ cl_reviews = <<>>
    /\ cl_i = 0
    /\ cl_todo = <<>>
    /\ cl_attempt = 0
    /\ cl_calls = 0
    /\ cl_results = <<>>
    /\ cl_returned = <<>>
    /\ cl_written = <<>>
    /\ cl_log = <<>>
    /\ ScrapeIdle
    /\ DcIdle
    /\ R2Idle

\* main: a required file is missing, FileNotFoundError leaves main
CL_FileMissing ==
    /\ cl_pc = "check"
    /\ \E k \in DOMAIN required_files : required_files[k] \notin cl_present
    /\ cl_pc' = "raised"
    /\ UNCHANGED <<cl_present, cl_country, cl_films, cl_reviews, cl_i, cl_todo, cl_attempt,
                   cl_calls, cl_results, cl_returned, cl_written, cl_log,
                   scrapeVars, dcVars, r2Vars>>

\* main: every required file exists; process_country_data is called for
\* Kazakhstan
CL_FilesFound ==
    /\ cl_pc = "check"
    /\ \A k \in DOMAIN required_files : required_files[k] \in cl_present
    /\ cl_pc' = "load"
    /\ cl_country' = 1
    /\ UNCHANGED <<cl_present, cl_films, cl_reviews, cl_i, cl_todo, cl_attempt,
                   cl_calls, cl_results, cl_returned, cl_written, cl_log,
                   scrapeVars, dcVars, r2Vars>>

\* process_country_data: pd.read_excel raises; the exception is logged and
\* raised again, and again by main
CL_LoadRaises ==
    /\ cl_pc = "load"
    /\ cl_pc' = "raised"
    /\ UNCHANGED <<cl_present, cl_country, cl_films, cl_reviews, cl_i, cl_todo, cl_attempt,
                   cl_calls, cl_results, cl_returned, cl_written, cl_log,
                   scrapeVars, dcVars, r2Vars>>

\* process_country_data: both tables are read, results = []
CL_Load ==
    /\ cl_pc = "load"
    /\ \E films \in FilmTables(cl_country), reviews \in ReviewTables(cl_country) :
           /\ cl_films' = films
           /\ cl_reviews' = reviews
    /\ cl_results' = <<>>
    /\ cl_i' = 1
    /\ cl_pc' = "film"
    /\ UNCHANGED <<cl_present, cl_country, cl_todo, cl_attempt, cl_calls, cl_returned,
                   cl_written, cl_log, scrapeVars, dcVars, r2Vars>>

\* the next film has reviews: `if movie_title in review_groups.groups`
CL_FilmWithReviews ==
    /\ cl_pc = "film"
    /\ cl_i <= Len(cl_films)
    /\ ReviewGroup(cl_reviews, cl_films[cl_i]) # <<>>
    /\ cl_todo' = ReviewGroup(cl_reviews, cl_films[cl_i])
    /\ cl_attempt' = 0
    /\ cl_calls' = 0
    /\ cl_pc' = "review"
    /\ UNCHANGED <<cl_present, cl_country, cl_films, cl_reviews, cl_i, cl_results,
                   cl_returned, cl_written, cl_log, scrapeVars, dcVars, r2Vars>>

\* the next film has no reviews: the placeholder row is appended
CL_FilmWithoutReviews ==
    /\ cl_pc = "film"
    /\ cl_i <= Len(cl_films)
    /\ ReviewGroup(cl_reviews, cl_films[cl_i]) = <<>>
    /\ cl_results' = Append(cl_results, PlaceholderRow(cl_films[cl_i]))
    /\ cl_i' = cl_i + 1
    /\ UNCHANGED <<cl_pc, cl_present, cl_country, cl_films, cl_reviews, cl_todo, cl_attempt,
                   cl_calls, cl_returned, cl_written, cl_log, scrapeVars, dcVars, r2Vars>>

\* an attempt of process_review returns: the row of the review is appended
CL_AttemptReturns ==
    /\ cl_pc = "review"
    /\ cl_todo # <<>>
    /\ ~ GivesUp(cl_attempt)
    /\ \E reply \in Replies :
           LET review == cl_reviews[Head(cl_todo)]
               r == process_review(review.review_title, review.review_content, reply)
               calls == cl_calls + (IF r.called THEN 1 ELSE 0)
           IN  /\ r.kind = "returned"
               /\ cl_results' = Append(cl_results,
                      ReviewRow(cl_films[cl_i], review, r.strengths, r.weaknesses))
               /\ cl_log' = Append(cl_log,
                      [country |-> cl_country, review |-> Head(cl_todo),
                       attempts |-> cl_attempt + 1, calls |-> calls,
                       outcome |-> "row", reply |-> IF r.called THEN reply.kind ELSE "none"])
    /\ cl_todo' = Tail(cl_todo)
    /\ cl_attempt' = 0
    /\ cl_calls' = 0
    /\ UNCHANGED <<cl_pc, cl_present, cl_country, cl_films, cl_reviews, cl_i, cl_returned,
                   cl_written, scrapeVars, dcVars, r2Vars>>

\* an attempt of process_review raises: tenacity counts it
CL_AttemptRaises ==
    /\ cl_pc = "review"
    /\ cl_todo # <<>>
    /\ ~ GivesUp(cl_attempt)
    /\ \E reply \in Replies :
           LET review == cl_reviews[Head(cl_todo)]
               r == process_review(review.review_title, review.review_content, reply)
           IN  /\ r.kind = "raised"
               /\ cl_calls' = cl_calls + (IF r.called THEN 1 ELSE 0)
    /\ cl_attempt' = cl_attempt + 1
    /\ UNCHANGED <<cl_pc, cl_present, cl_country, cl_films, cl_reviews, cl_i, cl_todo,
                   cl_results, cl_returned, cl_written, cl_log, scrapeVars, dcVars, r2Vars>>

\* tenacity has given up: RetryError reaches process_country_data, whose
\* except clause logs it and continues with the next review
CL_RetryError ==
    /\ cl_pc = "review"
    /\ cl_todo # <<>>
    /\ GivesUp(cl_attempt)
    /\ cl_log' = Append(cl_log,
           [country |-> cl_country, review |-> Head(cl_todo), attempts |-> cl_attempt,
            calls |-> cl_calls, outcome |-> "dropped", reply |-> "error"])
    /\ cl_todo' = Tail(cl_todo)
    /\ cl_attempt' = 0
    /\ cl_calls' = 0
    /\ UNCHANGED <<cl_pc, cl_present, cl_country, cl_films, cl_reviews, cl_i, cl_results,
                   cl_returned, cl_written, scrapeVars, dcVars, r2Vars>>

\* the reviews of the film are through: the next film
CL_FilmDone ==
    /\ cl_pc = "review"
    /\ cl_todo = <<>>
    /\ cl_i' = cl_i + 1
    /\ cl_pc' = "film"
    /\ UNCHANGED <<cl_present, cl_country, cl_films, cl_reviews, cl_todo, cl_attempt,
                   cl_calls, cl_results, cl_returned, cl_written, cl_log,
                   scrapeVars, dcVars, r2Vars>>

\* return pd.DataFrame(results); main goes on to South Korea, or to the writes
CL_Return ==
    /\ cl_pc = "film"
    /\ cl_i > Len(cl_films)
    /\ cl_returned' = Append(cl_returned, cl_results)
    /\ IF cl_country = 1
       THEN cl_country' = 2 /\ cl_pc' = "load"
       ELSE cl_country' = cl_country /\ cl_pc' = "save"
    /\ UNCHANGED <<cl_present, cl_films, cl_reviews, cl_i, cl_todo, cl_attempt, cl_calls,
                   cl_results, cl_written, cl_log, scrapeVars, dcVars, r2Vars>>

\* kz_results.to_excel(...); kr_results.to_excel(...)
CL_Save ==
    /\ cl_pc = "save"
    /\ cl_written' = cl_returned
    /\ cl_pc' = "done"
    /\ UNCHANGED <<cl_present, cl_country, cl_films, cl_reviews, cl_i, cl_todo, cl_attempt,
                   cl_calls, cl_results, cl_returned, cl_log, scrapeVars, dcVars, r2Vars>>

ClNext ==
    \/ CL_FileMissing
    \/ CL_FilesFound
    \/ CL_LoadRaises
    \/ CL_Load
    \/ CL_FilmWithReviews
    \/ CL_FilmWithoutReviews
    \/ CL_AttemptReturns
    \/ CL_AttemptRaises
    \/ CL_RetryError
    \/ CL_FilmDone
    \/ CL_Return
    \/ CL_Save

SpecClassify == ClInit /\ [][ClNext]_vars

\* --------------------------------------------------------------- configuration errors
\* a scrape_country_films call of ver3 with any country, one of test_claude
\* with a country that is no key of country_codes, or a main of
\* review_classifier.py with any subset of its required files on disk
ConfigInit ==
    \/ V3Init
    \/ TcStart(Countries \ DOMAIN country_codes)
    \/ ClInit

ConfigNext ==
    \/ V3Next
    \/ TcNext
    \/ ClNext

SpecConfig == ConfigInit /\ [][ConfigNext]_vars

\* the country of the run is no key of country_codes
Unconfigured == run_country # NoCountry /\ run_country \notin DOMAIN country_codes

\* one of required_files does not exist
FileIsMissing == \E k \in DOMAIN required_files : required_files[k] \notin cl_present

\* ver3 has fetched no listing page, submitted no detail fetch and written nothing
V3_NoWork ==
    /\ v3_pc \in {"start", "done"}
    /\ v3_soup = NoSoup
    /\ v3_movie_links = {}
    /\ v3_futures = <<>>
    /\ v3_all_movies = <<>>
    /\ v3_csv = NotWritten

\* test_claude has fetched no listing page, called no detail fetch and written nothing
TC_NoWork ==
    /\ tc_soup = NoSoup
    /\ tc_trace = <<>>
    /\ tc_futures = <<>>
    /\ tc_calls = {}
    /\ tc_all_movies = <<>>
    /\ tc_csv = NotWritten

\* the classifier has read no table, processed no review and written nothing
CL_NoWork ==
    /\ cl_pc \in {"check", "raised"}
    /\ cl_country = 0
    /\ cl_films = <<>>
    /\ cl_reviews = <<>>
    /\ cl_attempt = 0
    /\ cl_calls = 0
    /\ cl_log = <<>>
    /\ cl_results = <<>>
    /\ cl_returned = <<>>
    /\ cl_written = <<>>

\* C23 (as amended): ver3's scrape_country_films called with a country that
\* has no configured country code fetches no listing page, fetches no detail
\* page and writes nothing, and the classifier's main raises before any table
\* is read or review processed when a required file is missing.  (In
\* test_claude the lookup falls back to the lower-cased country name, so no
\* country is without a code there.)
Thm_C23 ==
    /\ (v3_pc # "idle" /\ Unconfigured) => V3_NoWork
    /\ (cl_pc # "idle" /\ FileIsMissing) => CL_NoWork
    /\ (cl_pc = "raised" /\ cl_country = 0) => FileIsMissing

\* ver3 has returned for a country without a code
Wit_C23 == v3_pc = "done" /\ run_country = "Narnia" /\ V3_NoWork

\* main has raised FileNotFoundError with only the last file missing
Wit_C23_files ==
    /\ cl_pc = "raised"
    /\ cl_present = {required_files[k] : k \in 1 .. 3}

\* C23 as stated, for every scrape_country_films: a country that is no key of
\* country_codes causes no fetch and no write
CE_C23 ==
    /\ Thm_C23
    /\ (tc_pc # "idle" /\ Unconfigured) => TC_NoWork

\* test_claude called with such a country has fetched pages and written its file
Wit_C23_test_claude == Unconfigured /\ tc_pc = "done" /\ tc_trace # <<>> /\ tc_csv # NotWritten

\* --------------------------------------------------------------- the retry policy
\* entries of the log for process_review calls that ended in RetryError
Dropped(entry) == entry.outcome = "dropped"

C25_State ==
    /\ cl_attempt <= StopAfterAttempt
    /\ cl_calls <= cl_attempt
    /\ \A k \in DOMAIN cl_log :
           /\ cl_log[k].attempts \in 1 .. StopAfterAttempt
           /\ Dropped(cl_log[k]) => cl_log[k].attempts = StopAfterAttempt
    \* a failed attempt short of the third is followed by another attempt
    /\ (cl_pc = "review" /\ cl_todo # <<>> /\ cl_attempt < StopAfterAttempt)
           => /\ ENABLED (CL_AttemptReturns \/ CL_AttemptRaises)
              /\ ~ ENABLED CL_RetryError
    \* the third failure is handed to process_country_data
    /\ (cl_pc = "review" /\ cl_todo # <<>> /\ cl_attempt = StopAfterAttempt)
           => /\ ENABLED CL_RetryError
              /\ ~ ENABLED (CL_AttemptReturns \/ CL_AttemptRaises)
    \* the loop over the reviews always has a next step
    /\ cl_pc = "review" => ENABLED (CL_AttemptReturns \/ CL_AttemptRaises \/ CL_RetryError \/ CL_FilmDone)

C25_Step ==
    /\ (Len(cl_log') > Len(cl_log) /\ Dropped(cl_log'[Len(cl_log')]))
           => /\ cl_results' = cl_results
              /\ cl_pc' = "review"
              /\ cl_todo' = Tail(cl_todo)
              /\ cl_i' = cl_i
    \* main is left by an exception only at the file check or at read_excel
    /\ (cl_pc' = "raised" /\ cl_pc # "raised") => cl_pc \in {"check", "load"}

\* C25: a review gets at most 3 attempts of process_review; a failed attempt
\* short of the third is followed by another attempt; after the third failure
\* the error reaches process_country_data, which appends no row for the review
\* and goes on with the next review of the film; no failure of a review makes
\* main raise.
Thm_C25 == [] C25_State /\ [][C25_Step]_vars

\* a review was dropped after three failed calls, and the review after it got its row
Wit_C25 ==
    \E k \in DOMAIN cl_log :
        /\ Dropped(cl_log[k])
        /\ cl_log[k].calls = StopAfterAttempt
        /\ k < Len(cl_log)
        /\ cl_log[k + 1].outcome = "row"
        /\ cl_pc = "done"

\* --------------------------------------------------------------- what triggers a retry
\* the review a log entry is about
ReviewOf(entry) == cl_reviews[entry.review]

\* the log entries of the country being processed
CurrentEntries == {k \in DOMAIN cl_log : cl_log[k].country = cl_country /\ cl_pc \in {"film", "review"}}

\* C28 as stated: a retry is triggered only by a failure of the classification
\* call, so every failed attempt has made a call; and a review whose content
\* is missing or 'n/a' gets its row of empty lists without any call.
CE_C28 ==
    /\ cl_calls = cl_attempt
    /\ \A k \in CurrentEntries :
           IsEmptyReview(ReviewOf(cl_log[k]).review_content)
               => cl_log[k].outcome = "row" /\ cl_log[k].calls = 0

\* a review without a title was given up after three attempts, none of which
\* made a call
Wit_C28_no_title ==
    \E k \in CurrentEntries :
        /\ ReviewOf(cl_log[k]).review_title = NaN
        /\ Dropped(cl_log[k])
        /\ cl_log[k].attempts = StopAfterAttempt
        /\ cl_log[k].calls = 0

\* what holds of C28, for reviews that have a title: an empty review returns
\* at its first attempt without a call, a reply that does not validate ends
\* the review with a row, and each attempt has made one call
Aux_C28_titled ==
    /\ (cl_pc = "review" /\ cl_todo # <<>> /\ cl_reviews[Head(cl_todo)].review_title # NaN)
           => cl_calls = cl_attempt
    /\ \A k \in CurrentEntries :
           ReviewOf(cl_log[k]).review_title # NaN =>
               /\ IsEmptyReview(ReviewOf(cl_log[k]).review_content)
                      => /\ cl_log[k].outcome = "row"
                         /\ cl_log[k].attempts = 1
                         /\ cl_log[k].calls = 0
               /\ cl_log[k].reply = "invalid"
                      => /\ cl_log[k].outcome = "row"
                         /\ cl_log[k].calls = cl_log[k].attempts

\* a reply that did not validate ended a review at its first attempt
Wit_C28_invalid ==
    \E k \in CurrentEntries :
        cl_log[k].reply = "invalid" /\ cl_log[k].attempts = 1 /\ cl_log[k].calls = 1

\* --------------------------------------------------------------- a row for every film
\* the rows of a film in the results
RowsOf(results, movie_title) == SelectSeq(results, LAMBDA row : row.movie_title = movie_title)

\* C29 as stated: every film the loop has passed has at least one row
CE_C29 ==
    cl_pc = "film" =>
        \A j \in 1 .. (cl_i - 1) : RowsOf(cl_results, cl_films[j]) # <<>>

\* process_country_data is at its return and a film of the table has no row
Wit_C29_no_row ==
    /\ cl_pc = "film"
    /\ cl_i > Len(cl_films)
    /\ \E j \in DOMAIN cl_films :
           /\ RowsOf(cl_results, cl_films[j]) = <<>>
           /\ ReviewGroup(cl_reviews, cl_films[j]) # <<>>

\* what holds of C29: a film without reviews has the one placeholder row, and
\* a film with reviews has one row for each review that was not given up
Aux_C29_rows ==
    cl_pc = "film" =>
        \A j \in 1 .. (cl_i - 1) :
            LET group == ReviewGroup(cl_reviews, cl_films[j])
                given_up == {k \in CurrentEntries : Dropped(cl_log[k]) /\ \E g \in DOMAIN group : group[g] = cl_log[k].review}
            IN  IF group = <<>>
                THEN RowsOf(cl_results, cl_films[j]) = <<PlaceholderRow(cl_films[j])>>
                ELSE Len(RowsOf(cl_results, cl_films[j])) = Len(group) - Cardinality(given_up)

\* --------------------------------------------------------------- review_classifier2.py
\* longest strengths / weaknesses list of a reply
MaxTitles == 1

\* longest suggested_categories list of a reply
MaxSuggested == 2

STRENGTH_CATEGORIES ==
    ("Acting/Performances" :> "Praise for actors' performances") @@
    ("Story/Screenplay" :> "Quality of narrative, plot, dialogue") @@
    ("Direction" :> "Filmmaking skill, vision") @@
    ("Cinematography" :> "Visual style, camera work") @@
    ("Production Design" :> "Sets, costumes, visual world-building") @@
    ("Music/Soundtrack" :> "Score, sound design") @@
    ("Emotional Impact" :> "Ability to evoke emotions") @@
    ("Originality" :> "Freshness, creativity") @@
    ("Pacing" :> "Narrative flow, rhythm") @@
    ("Cultural Significance" :> "Representation, social relevance")

WEAKNESS_CATEGORIES ==
    ("Weak Acting" :> "Poor performances") @@
    ("Plot Issues" :> "Holes, inconsistencies") @@
    ("Poor Direction" :> "Lack of vision, execution") @@
    ("Technical Flaws" :> "Editing, sound issues") @@
    ("Pacing Problems" :> "Too slow/fast") @@
    ("Predictability" :> "Lack of surprises") @@
    ("Character Development" :> "Underdeveloped characters") @@
    ("Tonal Issues" :> "Inconsistent mood") @@
    ("Excessive Length" :> "Overly long runtime") @@
    ("Cultural Missteps" :> "Offensive or insensitive elements")

\* titles a reply uses: a predefined strength and two that are in neither
\* registry at the start
ReplyTitles == {"Pacing", "Humor", "Gore"}

\* SuggestedCategory(title, description) values of a reply
Suggestions ==
    { [title |-> "Humor", description |-> "Jokes that land"],
      [title |-> "Humor", description |-> "Comic relief"],
      [title |-> "Gore", description |-> "Graphic violence"],
      [title |-> "Pacing", description |-> "Tempo"] }

\* a ReviewAnalysis that validated; suggested_categories None is the empty list
\* after `analysis.suggested_categories or []`
Analyses ==
    [strengths : SeqsUpTo(ReplyTitles, MaxTitles),
     weaknesses : SeqsUpTo(ReplyTitles, MaxTitles),
     suggested_categories : SeqsUpTo(Suggestions, MaxSuggested)]

\* x in list
InList(x, list) == \E k \in DOMAIN list : list[k] = x

\* the body of `for cat in suggested` with the else branch adding to the
\* weakness registry
AddSuggested_DefaultWeakness(reg, cat, analysis) ==
    LET is_strength == InList(cat.title, analysis.strengths)
        is_weakness == InList(cat.title, analysis.weaknesses)
    IN  IF cat.title \notin DOMAIN reg.strength /\ cat.title \notin DOMAIN reg.weakness
        THEN IF is_strength /\ ~ is_weakness
             THEN [reg EXCEPT !.strength = (cat.title :> cat.description) @@ @]
             ELSE [reg EXCEPT !.weakness = (cat.title :> cat.description) @@ @]
        ELSE reg

\* the body of `for cat in suggested` without the test that the title is new
AddSuggested_Overwrite(reg, cat, analysis) ==
    LET is_strength == InList(cat.title, analysis.strengths)
        is_weakness == InList(cat.title, analysis.weaknesses)
    IN  IF is_weakness /\ ~ is_strength
        THEN [reg EXCEPT !.weakness = (cat.title :> cat.description) @@ @]
        ELSE [reg EXCEPT !.strength = (cat.title :> cat.description) @@ @]

\* the body of `for cat in suggested`, on the pair of registries
AddSuggested(reg, cat, analysis) ==
    LET is_strength == InList(cat.title, analysis.strengths)
        is_weakness == InList(cat.title, analysis.weaknesses)
    IN  IF cat.title \notin DOMAIN reg.strength /\ cat.title \notin DOMAIN reg.weakness
        THEN IF is_strength /\ ~ is_weakness
             THEN [reg EXCEPT !.strength = (cat.title :> cat.description) @@ @]
             ELSE IF is_weakness /\ ~ is_strength
             THEN [reg EXCEPT !.weakness = (cat.title :> cat.description) @@ @]
             ELSE [reg EXCEPT !.strength = (cat.title :> cat.description) @@ @]
        ELSE reg

\* the loop over suggested, from position k on
RECURSIVE HandleSuggested(_, _, _)
HandleSuggested(reg, analysis, k) ==
    IF k > Len(analysis.suggested_categories) THEN reg
    ELSE HandleSuggested(AddSuggested(reg, analysis.suggested_categories[k], analysis),
                         analysis, k + 1)

\* [s for s in list if s in registry keys]
ValidOnly(list, registry) == SelectSeq(list, LAMBDA x : x \in DOMAIN registry)

\* suggested_titles
SuggestedTitles(analysis) ==
    [k \in DOMAIN analysis.suggested_categories |-> analysis.suggested_categories[k].title]

NoAnalysis == [strengths |-> <<>>, weaknesses |-> <<>>, suggested_categories |-> <<>>]

\* return [], [], []; the attempt counters of tenacity end with the call
EmptyReturn(reply) ==
    [kind |-> "returned", strengths |-> <<>>, weaknesses |-> <<>>, suggested |-> <<>>,
     reply |-> reply, analysis |-> NoAnalysis]

R2Init ==
    /\ r2_pc = "ready"
    /\ r2_title = "<none>"
    /\ r2_content = "<none>"
    /\ r2_attempt = 0
    /\ r2_calls = 0
    /\ r2_strength = STRENGTH_CATEGORIES
    /\ r2_weakness = WEAKNESS_CATEGORIES
    /\ r2_out = NotReturned
    /\ ScrapeIdle
    /\ DcIdle
    /\ ClIdle

\* process_country_data calls process_review(review_title, review_content)
R2_Call ==
    /\ r2_pc = "ready"
    /\ r2_title' \in {<<"T">>, NaN}
    /\ r2_content' \in ReviewTexts
    /\ r2_attempt' = 0
    /\ r2_calls' = 0
    /\ r2_out' = NotReturned
    /\ r2_pc' = "running"
    /\ UNCHANGED <<r2_strength, r2_weakness, scrapeVars, dcVars, clVars>>

\* an attempt raises before the call: title[:50] of a missing title
R2_AttemptTypeError ==
    /\ r2_pc = "running"
    /\ ~ GivesUp(r2_attempt)
    /\ r2_title = NaN
    /\ r2_attempt' = r2_attempt + 1
    /\ UNCHANGED <<r2_pc, r2_title, r2_content, r2_calls, r2_strength, r2_weakness, r2_out,
                   scrapeVars, dcVars, clVars>>

\* an attempt returns [], [], [] for an empty review, without a call
R2_AttemptSkips ==
    /\ r2_pc = "running"
    /\ ~ GivesUp(r2_attempt)
    /\ r2_title # NaN
    /\ IsEmptyReview(r2_content)
    /\ r2_out' = EmptyReturn("none")
    /\ r2_attempt' = 0
    /\ r2_calls' = 0
    /\ r2_pc' = "ready"
    /\ UNCHANGED <<r2_title, r2_content, r2_strength, r2_weakness,
                   scrapeVars, dcVars, clVars>>

\* client.generate raises: logged and raised again, tenacity counts the attempt
R2_AttemptCallRaises ==
    /\ r2_pc = "running"
    /\ ~ GivesUp(r2_attempt)
    /\ r2_title # NaN
    /\ ~ IsEmptyReview(r2_content)
    /\ r2_attempt' = r2_attempt + 1
    /\ r2_calls' = r2_calls + 1
    /\ UNCHANGED <<r2_pc, r2_title, r2_content, r2_strength, r2_weakness, r2_out,
                   scrapeVars, dcVars, clVars>>

\* the reply does not validate: return [], [], []
R2_AttemptInvalid ==
    /\ r2_pc = "running"
    /\ ~ GivesUp(r2_attempt)
    /\ r2_title # NaN
    /\ ~ IsEmptyReview(r2_content)
    /\ r2_out' = EmptyReturn("invalid")
    /\ r2_attempt' = 0
    /\ r2_calls' = 0
    /\ r2_pc' = "ready"
    /\ UNCHANGED <<r2_title, r2_content, r2_strength, r2_weakness, scrapeVars, dcVars, clVars>>

\* the reply validates: the suggested categories are handled, then the lists
\* are filtered by the registries as they are now
R2_AttemptValid ==
    /\ r2_pc = "running"
    /\ ~ GivesUp(r2_attempt)
    /\ r2_title # NaN
    /\ ~ IsEmptyReview(r2_content)
    /\ \E analysis \in Analyses :
           LET reg == HandleSuggested([strength |-> r2_strength, weakness |-> r2_weakness],
                                      analysis, 1)
           IN  /\ r2_strength' = reg.strength
               /\ r2_weakness' = reg.weakness
               /\ r2_out' = [kind |-> "returned",
                             strengths |-> ValidOnly(analysis.strengths, reg.strength),
                             weaknesses |-> ValidOnly(analysis.weaknesses, reg.weakness),
                             suggested |-> SuggestedTitles(analysis),
                             reply |-> "valid",
                             analysis |-> analysis]
    /\ r2_attempt' = 0
    /\ r2_calls' = 0
    /\ r2_pc' = "ready"
    /\ UNCHANGED <<r2_title, r2_content, scrapeVars, dcVars, clVars>>

\* tenacity has given up: RetryError leaves process_review
R2_RetryError ==
    /\ r2_pc = "running"
    /\ GivesUp(r2_attempt)
    /\ r2_out' = [kind |-> "RetryError"]
    /\ r2_attempt' = 0
    /\ r2_calls' = 0
    /\ r2_pc' = "ready"
    /\ UNCHANGED <<r2_title, r2_content, r2_strength, r2_weakness,
                   scrapeVars, dcVars, clVars>>

R2Next ==
    \/ R2_Call
    \/ R2_AttemptTypeError
    \/ R2_AttemptSkips
    \/ R2_AttemptCallRaises
    \/ R2_AttemptInvalid
    \/ R2_AttemptValid
    \/ R2_RetryError

SpecReview2 == R2Init /\ [][R2Next]_vars

\* --------------------------------------------------------------- suggested categories
\* a process_review call returns in this step with a reply that validated
R2_ReturnsValid ==
    /\ r2_pc = "running"
    /\ r2_pc' = "ready"
    /\ r2_out'.kind = "returned"
    /\ r2_out'.reply = "valid"

\* the first suggestion of the reply with this title
FirstSuggested(analysis, title) ==
    LET ks == {k \in DOMAIN analysis.suggested_categories :
                   analysis.suggested_categories[k].title = title}
    IN  analysis.suggested_categories[CHOOSE k \in ks : \A j \in ks : k <= j]

\* the entry of the title is the same in the registry before and after
SameEntry(before, after, title) ==
    /\ title \in DOMAIN after <=> title \in DOMAIN before
    /\ title \in DOMAIN before => after[title] = before[title]

C26_Step ==
    R2_ReturnsValid =>
        LET analysis == r2_out'.analysis
            suggested == {r2_out'.suggested[k] : k \in DOMAIN r2_out'.suggested}
            titles == suggested \cup DOMAIN r2_strength' \cup DOMAIN r2_weakness'
        IN  \A title \in titles :
                IF /\ title \in suggested
                   /\ title \notin DOMAIN r2_strength
                   /\ title \notin DOMAIN r2_weakness
                THEN LET description == FirstSuggested(analysis, title).description
                     IN  IF /\ InList(title, analysis.weaknesses)
                            /\ ~ InList(title, analysis.strengths)
                         THEN /\ title \in DOMAIN r2_weakness'
                              /\ r2_weakness'[title] = description
                              /\ title \notin DOMAIN r2_strength'
                         ELSE /\ title \in DOMAIN r2_strength'
                              /\ r2_strength'[title] = description
                              /\ title \notin DOMAIN r2_weakness'
                ELSE /\ SameEntry(r2_strength, r2_strength', title)
                     /\ SameEntry(r2_weakness, r2_weakness', title)

\* C26: in review_classifier2.process_review a suggested category whose title
\* is in neither registry is added to exactly one registry, the weakness
\* registry if and only if the title is in the reply's weaknesses and not in
\* its strengths, the strength registry otherwise; a suggested category whose
\* title is in a registry, and any title not suggested, changes nothing.
Thm_C26 == [][C26_Step]_vars

\* "Humor" went to the weakness registry, and the last reply suggested "Gore",
\* naming it as strength and as weakness: it is in the strength registry
Wit_C26 ==
    /\ r2_pc = "ready"
    /\ r2_out.kind = "returned"
    /\ "Humor" \in DOMAIN r2_weakness
    /\ r2_out.analysis.strengths = <<"Gore">>
    /\ r2_out.analysis.weaknesses = <<"Gore">>
    /\ InList("Gore", r2_out.suggested)
    /\ "Gore" \in DOMAIN r2_strength
    /\ "Gore" \notin DOMAIN r2_weakness

\* a suggested title named in neither list is in the strength registry
Wit_C26_neither ==
    /\ r2_pc = "ready"
    /\ r2_out.kind = "returned"
    /\ r2_out.analysis.strengths = <<>>
    /\ r2_out.analysis.weaknesses = <<>>
    /\ r2_out.suggested = <<"Humor">>
    /\ "Humor" \in DOMAIN r2_strength
    /\ r2_strength["Humor"] = "Comic relief"

\* --------------------------------------------------------------- the registries
C27_State ==
    /\ DOMAIN r2_strength \cap DOMAIN r2_weakness = {}
    /\ r2_out.kind = "returned" =>
           /\ \A k \in DOMAIN r2_out.strengths : r2_out.strengths[k] \in DOMAIN r2_strength
           /\ \A k \in DOMAIN r2_out.weaknesses : r2_out.weaknesses[k] \in DOMAIN r2_weakness

C27_Step ==
    /\ \A title \in DOMAIN r2_strength :
           title \in DOMAIN r2_strength' /\ r2_strength'[title] = r2_strength[title]
    /\ \A title \in DOMAIN r2_weakness :
           title \in DOMAIN r2_weakness' /\ r2_weakness'[title] = r2_weakness[title]

\* C27: after any sequence of process_review calls of review_classifier2 no
\* title is a key of both registries, no step removes a key or changes the
\* description of a key, and the strengths and weaknesses a call returned are
\* keys of the strength and of the weakness registry.
Thm_C27 == [] C27_State /\ [][C27_Step]_vars

\* both registries have grown, a reply suggested a title that was already a
\* key, and the call returned a title that was added by an earlier call
Wit_C27 ==
    /\ r2_pc = "ready"
    /\ r2_out.kind = "returned"
    /\ "Humor" \in DOMAIN r2_strength
    /\ r2_strength["Humor"] = "Jokes that land"
    /\ "Gore" \in DOMAIN r2_weakness
    /\ r2_out.analysis.suggested_categories = <<[title |-> "Humor", description |-> "Comic relief"]>>
    /\ r2_out.strengths = <<"Humor">>
    /\ r2_out.weaknesses = <<"Gore">>

====
